---- MODULE Spec2Model ----
(***************************************************************************)
(* ProgrammaticToolCaller (src/lib/tool-wrapper.ts): the code_execution    *)
(* tool, which races ToolOrchestrationSandbox.execute against a 25 s timer,*)
(* derives the run's output, and resets the sandbox in a finally block.    *)
(* ToolOrchestrationSandbox (imported from './sandbox') follows sections   *)
(* 4.2 and 5 of the specification: records are appended to the sandbox's   *)
(* trace as calls complete, and reset() clears the trace.                  *)
(* The chat route (src/unnamed/part_000): getMCPManager and POST, which    *)
(* loads the MCP tools, wraps the tools with withProgrammaticCalling and   *)
(* streams the model's steps and a final metadata event.                   *)
(***************************************************************************)
EXTENDS Integers, Sequences, FiniteSets, TLC

\* Number of code_execution invocations made on the one ProgrammaticToolCaller.
MaxInv == 2
\* Largest number of capability calls a script issues.
MaxCalls == 2
\* The same, for the scripts of Spec, where several invocations interleave.
MaxRunCalls == 1
\* setTimeout(..., 25000) in the Promise.race of execute.
RaceTimeoutMs == 25000

(***************************************************************************)
(* JavaScript values.  Every value is a record with a type tag t; the      *)
(* primitives carry their literal as a string.                             *)
(***************************************************************************)
Undefined == [t |-> "undefined", v |-> "undefined"]
Null == [t |-> "null", v |-> "null"]
Num(s) == [t |-> "number", v |-> s]
Str(s) == [t |-> "string", v |-> s]
Bool(b) == [t |-> "boolean", v |-> IF b THEN "true" ELSE "false"]
BigIntV == [t |-> "bigint", v |-> "10"]
FnV == [t |-> "function", v |-> "() => 1"]
\* A property whose value is the object that holds it (a circular reference).
SelfRef == [t |-> "selfref", v |-> "[object Object]"]
\* An object: its own enumerable keys, their values, and what reading it does:
\* "none" (plain data), "getter" (a property getter throws), "ownKeys" (a Proxy
\* whose ownKeys trap throws).
Obj(keys, vals, trap) == [t |-> "object", keys |-> keys, vals |-> vals, trap |-> trap]
Arr(items) == [t |-> "array", items |-> items]

\* Markers for the outcome of an operation on a value (not JavaScript values).
THROW == [t |-> "throw", v |-> "throw"]
Omitted == [t |-> "omitted", v |-> "omitted"]

\* typeof x
TypeOf(x) == IF x.t \in {"null", "object", "array", "selfref"} THEN "object" ELSE x.t

\* ToBoolean(x), as the || operator applies it.
Truthy(x) ==
  CASE x.t \in {"undefined", "null"} -> FALSE
    [] x.t = "number" -> x.v \notin {"0", "NaN"}
    [] x.t = "string" -> x.v # ""
    [] x.t = "boolean" -> x.v = "true"
    [] x.t = "bigint" -> x.v # "0"
    [] OTHER -> TRUE

\* String(x)
StringOf(x) ==
  CASE x.t \in {"object", "selfref"} -> Str("[object Object]")
    [] OTHER -> Str(x.v)

\* JSON.stringify followed by JSON.parse, on a value nested in another value:
\* THROW when stringify throws, Omitted when stringify yields no text for it
\* (undefined, functions), otherwise the parsed copy.
RECURSIVE JSONCopy(_)
JSONCopy(x) ==
  CASE x.t \in {"undefined", "function"} -> Omitted
    [] x.t \in {"bigint", "selfref"} -> THROW
    [] x.t = "number" -> IF x.v = "NaN" THEN Null ELSE x
    [] x.t \in {"null", "string", "boolean"} -> x
    [] x.t = "array" ->
         LET c == [k \in 1..Len(x.items) |-> JSONCopy(x.items[k])]
         IN IF \E k \in 1..Len(c) : c[k] = THROW
            THEN THROW
            ELSE Arr([k \in 1..Len(c) |-> IF c[k] = Omitted THEN Null ELSE c[k]])
    [] x.t = "object" ->
         IF x.trap # "none"
         THEN THROW
         ELSE LET c == [k \in 1..Len(x.keys) |-> <<x.keys[k], JSONCopy(x.vals[k])>>]
                  kept == SelectSeq(c, LAMBDA p : p[2] # Omitted)
              IN IF \E k \in 1..Len(c) : c[k][2] = THROW
                 THEN THROW
                 ELSE Obj([k \in 1..Len(kept) |-> kept[k][1]],
                          [k \in 1..Len(kept) |-> kept[k][2]], "none")

\* JSON.parse(JSON.stringify(x)): JSON.parse(undefined) throws a SyntaxError.
RoundTrip(x) == LET c == JSONCopy(x) IN IF c = Omitted THEN THROW ELSE c

\* Object.keys(x) of an object or array throws when a Proxy's ownKeys trap does.
ObjectKeysThrows(x) == x.t = "object" /\ x.trap = "ownKeys"

\* Object.keys(x), when it does not throw.
ObjectKeys(x) ==
  IF x.t = "array" THEN [k \in 1..Len(x.items) |-> ToString(k - 1)] ELSE x.keys

\* Object.entries(x) reads every property, so a throwing getter throws too.
ObjectEntriesThrows(x) == x.t = "object" /\ x.trap # "none"

\* Object.entries(x), when it does not throw.
ObjectEntries(x) ==
  IF x.t = "array" THEN [k \in 1..Len(x.items) |-> <<ToString(k - 1), x.items[k]>>]
  ELSE [k \in 1..Len(x.keys) |-> <<x.keys[k], x.vals[k]>>]

(***************************************************************************)
(* The capabilities handed to the ProgrammaticToolCaller constructor.      *)
(***************************************************************************)
NoError == "none"

\* name :> what the capability's execute does: the value it resolves to, or
\* the message of the Error it rejects with.
Capability(name) ==
  CASE name = "double" -> [result |-> Num("8"), error |-> NoError]
    [] name = "count" -> [result |-> Num("0"), error |-> NoError]
    [] name = "flag" -> [result |-> Bool(FALSE), error |-> NoError]
    [] name = "text" -> [result |-> Str(""), error |-> NoError]
    [] name = "get" -> [result |-> Obj(<<"a">>, <<Num("1")>>, "none"), error |-> NoError]
    [] name = "opt" -> [result |-> Obj(<<"a", "u">>, <<Num("1"), Undefined>>, "none"),
                        error |-> NoError]
    [] name = "fail" -> [result |-> Undefined, error |-> "boom"]
    [] name = "mcp_x" -> [result |-> Obj(<<"success">>, <<Bool(TRUE)>>, "none"),
                          error |-> NoError]

ToolNames == {"double", "count", "flag", "text", "get", "opt", "fail", "mcp_x"}

\* name.startsWith(prefix)
StartsWith(name, prefix) ==
  Len(name) >= Len(prefix) /\ SubSeq(name, 1, Len(prefix)) = prefix

\* The constructor keeps names starting with 'mcp_' out of the local registry.
IsMCPName(name) == StartsWith(name, "mcp_")

(***************************************************************************)
(* The ProgrammaticToolCaller constructor and withProgrammaticCalling.     *)
(***************************************************************************)
\* A tool definition: its name and whether it has an execute function.
ToolDef(name, execute) == [name |-> name, execute |-> execute]

\* A timeout argument that is not given.
Absent == -1
\* constructor(tools, timeout: number = 30000)
ConstructorDefaultTimeoutMs == 30000
\* withProgrammaticCalling(tools, timeout: number = 300000)
DefaultTimeoutMs == 300000

\* createMCPBridge(tools).getToolNames(): the bridged tools are the ones whose
\* names carry the bridge's prefix; none when there is no bridge.
createMCPBridge(toolSet) == {d.name : d \in {e \in toolSet : IsMCPName(e.name)}}

\* The constructor registering every tool that has an execute function.
ProgrammaticToolCallerAllLocal(toolSet, timeout) ==
  LET local == {d.name : d \in {e \in toolSet : e.execute}}
  IN [tools |-> toolSet,
      toolRegistry |-> local,
      localToolNames |-> local,
      mcpToolNames |-> createMCPBridge(toolSet),
      timeout |-> IF timeout = Absent THEN ConstructorDefaultTimeoutMs ELSE timeout]

\* new ProgrammaticToolCaller(toolSet, timeout): the local registry holds the
\* tools with an execute function whose name does not start with 'mcp_'; the
\* bridge lists the 'mcp_' tools; the sandbox is built with the timeout.
ProgrammaticToolCaller(toolSet, timeout) ==
  LET local == {d.name : d \in {e \in toolSet : e.execute /\ ~IsMCPName(e.name)}}
  IN [tools |-> toolSet,
      toolRegistry |-> local,
      localToolNames |-> local,
      mcpToolNames |-> createMCPBridge(toolSet),
      timeout |-> IF timeout = Absent THEN ConstructorDefaultTimeoutMs ELSE timeout]

\* The elements of a set as a list, in the order the object lists its keys.
RECURSIVE SeqOf(_)
SeqOf(S) ==
  IF S = {} THEN <<>>
  ELSE LET x == CHOOSE y \in S : TRUE IN <<x>> \o SeqOf(S \ {x})

\* getAllToolNames(): [...this.localToolNames, ...this.mcpToolNames]
getAllToolNames(w) == SeqOf(w.localToolNames) \o SeqOf(w.mcpToolNames)

\* createEnhancedToolSet(): a new object with the wrapper's tools and
\* code_execution (the names of its keys).
createEnhancedToolSet(w) == {d.name : d \in w.tools} \cup {"code_execution"}

\* withProgrammaticCalling(toolSet, timeout): the wrapper and the enhanced
\* tool set (the given tools and code_execution).
withProgrammaticCalling(toolSet, timeout) ==
  LET wrapper == ProgrammaticToolCaller(toolSet,
                   IF timeout = Absent THEN DefaultTimeoutMs ELSE timeout)
  IN [tools |-> createEnhancedToolSet(wrapper), wrapper |-> wrapper]

(***************************************************************************)
(* createCodeExecutionTool.execute: deriving the run's output.             *)
(***************************************************************************)
\* toolCalls.map(tc => ({ tool, success, result }))
AllResults(toolCalls) ==
  [k \in 1..Len(toolCalls) |->
     Obj(<<"tool", "success", "result">>,
         <<Str(toolCalls[k].toolName), Bool(toolCalls[k].error = NoError),
           toolCalls[k].result>>, "none")]

\* The fallback with the summary object for every trace, the empty one
\* included.
FallbackOutputAlwaysSummary(toolCalls) ==
  IF Len(toolCalls) = 1
  THEN IF Truthy(toolCalls[1].result)
       THEN toolCalls[1].result
       ELSE Obj(<<"success", "message">>,
                <<Bool(toolCalls[1].error = NoError), Str("Tool executed")>>, "none")
  ELSE Obj(<<"message", "results", "lastResult">>,
           <<Str("Executed " \o ToString(Len(toolCalls)) \o " tool calls"),
             Arr(AllResults(toolCalls)),
             IF toolCalls = <<>> THEN Undefined
             ELSE toolCalls[Len(toolCalls)].result>>, "none")

\* The fallback with the last record read from the front of the trace.
FallbackOutputFirstCall(toolCalls) ==
  IF Len(toolCalls) > 0
  THEN LET lastCall == toolCalls[1]
       IN IF Len(toolCalls) = 1
          THEN IF Truthy(lastCall.result)
               THEN lastCall.result
               ELSE Obj(<<"success", "message">>,
                        <<Bool(lastCall.error = NoError), Str("Tool executed")>>, "none")
          ELSE Obj(<<"message", "results", "lastResult">>,
                   <<Str("Executed " \o ToString(Len(toolCalls)) \o " tool calls"),
                     Arr(AllResults(toolCalls)), lastCall.result>>, "none")
  ELSE Obj(<<"message", "success">>,
           <<Str("Code executed but returned no result"), Bool(TRUE)>>, "none")

\* The value built from the tool calls when the script returned undefined or null.
FallbackOutput(toolCalls) ==
  IF Len(toolCalls) > 0
  THEN LET lastCall == toolCalls[Len(toolCalls)]
       IN IF Len(toolCalls) = 1
          THEN IF Truthy(lastCall.result)
               THEN lastCall.result
               ELSE Obj(<<"success", "message">>,
                        <<Bool(lastCall.error = NoError), Str("Tool executed")>>, "none")
          ELSE Obj(<<"message", "results", "lastResult">>,
                   <<Str("Executed " \o ToString(Len(toolCalls)) \o " tool calls"),
                     Arr(AllResults(toolCalls)), lastCall.result>>, "none")
  ELSE Obj(<<"message", "success">>,
           <<Str("Code executed but returned no result"), Bool(TRUE)>>, "none")

\* The handler of a failed serialization: per-property copies, else a
\* diagnostic object; THROW when the handler itself throws.
SerializeFailed(output) ==
  IF TypeOf(output) = "object" /\ output.t # "null"
  THEN LET entries == ObjectEntries(output)
       IN IF ObjectEntriesThrows(output)
          THEN IF ObjectKeysThrows(output)
               THEN THROW
               ELSE Obj(<<"message", "type", "keys">>,
                        <<Str("Output contained non-serializable data"),
                          Str(TypeOf(output)),
                          Arr([k \in 1..Len(ObjectKeys(output)) |->
                                 Str(ObjectKeys(output)[k])])>>, "none")
          ELSE Obj([k \in 1..Len(entries) |-> entries[k][1]],
                   [k \in 1..Len(entries) |->
                      IF RoundTrip(entries[k][2]) = THROW
                      THEN StringOf(entries[k][2])
                      ELSE RoundTrip(entries[k][2])], "none")
  ELSE Obj(<<"value", "type">>, <<StringOf(output), Str(TypeOf(output))>>, "none")

\* The output test written with a truthiness check instead of the
\* comparison with undefined and null.
SerializeOutputFalsy(output, toolCalls) ==
  IF ~Truthy(output)
  THEN FallbackOutput(toolCalls)
  ELSE IF RoundTrip(output) = THROW
       THEN SerializeFailed(output)
       ELSE RoundTrip(output)

\* serializableOutput, or THROW when an exception leaves the inner try/catch.
SerializeOutput(output, toolCalls) ==
  IF output = Undefined \/ output = Null
  THEN FallbackOutput(toolCalls)
  ELSE IF RoundTrip(output) = THROW
       THEN SerializeFailed(output)
       ELSE RoundTrip(output)

\* [...new Set(names)]: each name once, in the order of its first occurrence.
RECURSIVE Unique(_)
Unique(names) ==
  IF names = <<>> THEN <<>>
  ELSE LET front == Unique(SubSeq(names, 1, Len(names) - 1))
           last == names[Len(names)]
       IN IF \E k \in 1..Len(front) : front[k] = last THEN front
          ELSE Append(front, last)

\* toolCalls.map(c => c.toolName)
Names(toolCalls) == [k \in 1..Len(toolCalls) |-> toolCalls[k].toolName]

\* The estimator's token count of a call's result.
PayloadTokens(x) ==
  CASE x.t = "undefined" -> 0
    [] x.t = "object" -> 1 + Len(x.keys)
    [] OTHER -> 1

RECURSIVE SumPayloadTokens(_)
SumPayloadTokens(toolCalls) ==
  IF toolCalls = <<>> THEN 0
  ELSE PayloadTokens(toolCalls[Len(toolCalls)].result)
         + SumPayloadTokens(SubSeq(toolCalls, 1, Len(toolCalls) - 1))

\* sandbox.getComprehensiveTokenSavings() over the sandbox's trace: a weight
\* per recorded call for each component, and their sum.
getComprehensiveTokenSavings(toolCalls) ==
  LET n == Len(toolCalls)
      intermediate == SumPayloadTokens(toolCalls)
  IN [intermediateResultTokens |-> intermediate,
      roundTripContextTokens |-> 4 * n,
      toolCallOverheadTokens |-> 3 * n,
      llmDecisionTokens |-> 2 * n,
      totalSaved |-> intermediate + 4 * n + 3 * n + 2 * n]

\* The metadata with the intermediate-result figure reported as the total.
MetadataTotalIntermediate(toolCalls, tokenSavings) ==
  [toolCallCount |-> Len(toolCalls),
   localToolCallCount |-> Len(SelectSeq(toolCalls, LAMBDA tc : ~tc.isMCP)),
   mcpToolCallCount |-> Len(SelectSeq(toolCalls, LAMBDA tc : tc.isMCP)),
   intermediateTokensSaved |-> tokenSavings.intermediateResultTokens,
   totalTokensSaved |-> tokenSavings.intermediateResultTokens,
   tokenSavingsBreakdown |->
     [intermediateResults |-> tokenSavings.intermediateResultTokens,
      roundTripContext |-> tokenSavings.roundTripContextTokens,
      toolCallOverhead |-> tokenSavings.toolCallOverheadTokens,
      llmDecisions |-> tokenSavings.llmDecisionTokens],
   toolsUsed |-> Unique(Names(toolCalls)),
   mcpToolsUsed |-> Unique(Names(SelectSeq(toolCalls, LAMBDA tc : tc.isMCP))),
   localToolsUsed |-> Unique(Names(SelectSeq(toolCalls, LAMBDA tc : ~tc.isMCP))),
   sandboxToolCalls |-> toolCalls]

\* The metadata with toolsUsed listing the name of every call.
MetadataNamesRepeated(toolCalls, tokenSavings) ==
  [MetadataTotalIntermediate(toolCalls, tokenSavings) EXCEPT
     !.totalTokensSaved = tokenSavings.totalSaved,
     !.toolsUsed = Names(toolCalls)]

\* The metadata object of the returned value, from the toolCalls of the
\* sandbox's result and the estimate read from the sandbox.  Each
\* sandboxToolCalls entry keeps the record's history fields, which the model
\* adds to say which script issued the call and when it completed.
Metadata(toolCalls, tokenSavings) ==
  [toolCallCount |-> Len(toolCalls),
   localToolCallCount |-> Len(SelectSeq(toolCalls, LAMBDA tc : ~tc.isMCP)),
   mcpToolCallCount |-> Len(SelectSeq(toolCalls, LAMBDA tc : tc.isMCP)),
   intermediateTokensSaved |-> tokenSavings.intermediateResultTokens,
   totalTokensSaved |-> tokenSavings.totalSaved,
   tokenSavingsBreakdown |->
     [intermediateResults |-> tokenSavings.intermediateResultTokens,
      roundTripContext |-> tokenSavings.roundTripContextTokens,
      toolCallOverhead |-> tokenSavings.toolCallOverheadTokens,
      llmDecisions |-> tokenSavings.llmDecisionTokens],
   toolsUsed |-> Unique(Names(toolCalls)),
   mcpToolsUsed |-> Unique(Names(SelectSeq(toolCalls, LAMBDA tc : tc.isMCP))),
   localToolsUsed |-> Unique(Names(SelectSeq(toolCalls, LAMBDA tc : ~tc.isMCP))),
   sandboxToolCalls |-> toolCalls]

(***************************************************************************)
(* State.                                                                  *)
(***************************************************************************)
VARIABLES
  pc,            \* per invocation of execute: idle, racing, completed, failed, timedout
  script,        \* per invocation: the code handed to sandbox.execute
  sstate,        \* per invocation: the promise of sandbox.execute (none, running, returned, threw)
  issued,        \* per invocation: how many capability calls its script has issued
  pending,       \* per invocation: the issued calls that have not completed
  trace,         \* the sandbox's tool-call records (cleared by reset)
  clock,         \* number of capability calls completed so far
  response,      \* per invocation: what its caller received
  executeCalls,  \* per invocation: calls of sandbox.execute made for it
  resetCalls,    \* per invocation: calls of sandbox.reset made for it
  alone,         \* per invocation: no other invocation was racing when it started
  timeout,       \* the timeout the ProgrammaticToolCaller built its sandbox with
  mcpConfigured, \* chat route: whether the deployment configures MCP servers
  mcpManager,    \* chat route: the global manager (0 for null, else its number)
  managers,      \* chat route: the MCP managers created so far
  request,       \* chat route: per request, the state of its POST handler
  exec,          \* chat route: per request, its code_execution call in progress
  sandboxes,     \* chat route: per wrapper, the trace of its sandbox
  caller,        \* registry: the ProgrammaticToolCaller built from a tool set
  returned,      \* registry: what the last operation on it returned
  isLoading,     \* chat client: the isLoading state
  abortControllerRef, \* chat client: abortControllerRef.current (0 for null)
  fetches,       \* chat client: per handleSubmit call that sent a request, its state
  reader,        \* stream parser: the chunks reader.read() has yet to deliver
  parsed         \* stream parser: the locals of handleSubmit's read loop

execVars == <<pc, script, sstate, issued, pending, trace, clock, response,
              executeCalls, resetCalls, alone>>
routeVars == <<mcpConfigured, mcpManager, managers, request, exec, sandboxes>>
registryVars == <<caller, returned>>
clientVars == <<isLoading, abortControllerRef, fetches>>
parserVars == <<reader, parsed>>
restVars == <<registryVars, clientVars, parserVars>>
vars == <<execVars, timeout, routeVars, restVars>>

Invocations == 1..MaxInv

SeqsUpTo(T, n) == UNION {[1..k -> T] : k \in 0..n}

\* How long a script runs, in milliseconds: within the budget, or past it.
ScriptDurations == {1000, 26000}

NoScript == [calls |-> <<>>, par |-> FALSE, ret |-> Undefined, throwAt |-> -1, dur |-> 0]
NoResponse == [kind |-> "none"]

\* A script: the capability calls it makes (awaited one after the other, or
\* started together when par), the value it returns, the number of completed
\* calls after which it throws (-1: it does not), and its running time.
\* In RunScripts the scripts that outlast the budget return "late" and the
\* others return nothing.
RunScripts ==
  {s \in [calls : SeqsUpTo({"double"}, MaxRunCalls), par : {FALSE},
          ret : {Undefined, Str("late")}, throwAt : -1..MaxRunCalls,
          dur : ScriptDurations] :
     /\ s.throwAt \in {-1, Len(s.calls)}
     /\ s.ret = IF s.dur > RaceTimeoutMs THEN Str("late") ELSE Undefined}

\* Values a script can return.
OutputValues ==
  {Undefined, Null, Num("0"), Bool(FALSE), Str(""), Num("8"), Num("NaN"), Str("ok"),
   Obj(<<"a">>, <<Num("1")>>, "none"),
   Obj(<<"a", "u">>, <<Num("1"), Undefined>>, "none"),
   BigIntV, FnV,
   Obj(<<"a", "b">>, <<Num("1"), BigIntV>>, "none"),
   Obj(<<"self">>, <<SelfRef>>, "none"),
   Obj(<<"a">>, <<Num("1")>>, "getter"),
   Obj(<<>>, <<>>, "ownKeys")}

OutputScripts ==
  {s \in [calls : SeqsUpTo(ToolNames, MaxCalls), par : BOOLEAN,
          ret : OutputValues, throwAt : {-1}, dur : {1000}] :
     s.par => Len(s.calls) > 1}

\* Number of chat requests.
MaxReq == 2
\* Largest number of model steps of a chat request.
MaxSteps == 1
\* Largest number of capability calls of a script run by a chat request.
MaxRouteCalls == 1

Requests == 1..MaxReq

\* The tools of '@/lib/tools' and the tools a ready MCP manager returns.
tools == {ToolDef("double", TRUE), ToolDef("get", TRUE)}
MCPTools == {ToolDef("mcp_x", TRUE)}

NoWrapper == [timeout |-> Absent]
NoBody == [json |-> "none"]
NoRequest ==
  [pc |-> "idle", body |-> NoBody, manager |-> 0, globalMCPManager |-> 0,
   initFailed |-> FALSE,
   allTools |-> {}, enhancedTools |-> {}, wrapper |-> NoWrapper,
   steps |-> <<>>, toolCalls |-> <<>>, codeExecutions |-> <<>>,
   toolCallEvents |-> <<>>, toolCallInterval |-> FALSE, sent |-> <<>>,
   tokensSavedReads |-> 0,
   status |-> 0, payload |-> [type |-> "none"]]
NoExec == [state |-> "none"]

\* The ProgrammaticToolCaller of the code_execution tool: built by
\* withProgrammaticCalling with the given timeout argument.
Construct(timeoutArg) ==
  /\ pc = [i \in Invocations |-> "idle"]
  /\ script = [i \in Invocations |-> NoScript]
  /\ sstate = [i \in Invocations |-> "none"]
  /\ issued = [i \in Invocations |-> 0]
  /\ pending = [i \in Invocations |-> {}]
  /\ trace = <<>>
  /\ clock = 0
  /\ response = [i \in Invocations |-> NoResponse]
  /\ executeCalls = [i \in Invocations |-> 0]
  /\ resetCalls = [i \in Invocations |-> 0]
  /\ alone = [i \in Invocations |-> TRUE]
  /\ timeout = withProgrammaticCalling({ToolDef(n, TRUE) : n \in ToolNames},
                                       timeoutArg).wrapper.timeout

\* The chat route's module before any request: no global MCP manager.
RouteLoaded ==
  /\ mcpManager = 0
  /\ managers = <<>>
  /\ request = [r \in Requests |-> NoRequest]
  /\ exec = [r \in Requests |-> NoExec]
  /\ sandboxes = [r \in Requests |-> <<>>]

\* The names of the tools handed to a ProgrammaticToolCaller: local names,
\* names with the bridge's prefix, and names that only resemble it.
RegistryNames == {"double", "get", "mcp_x", "mcp_", "mcp", "xmcp_y"}

\* The tool sets: objects whose keys are some of the names, each tool with
\* or without an execute function.
ToolSets ==
  {{ToolDef(n, f[n]) : n \in DOMAIN f} :
     f \in UNION {[N -> BOOLEAN] : N \in SUBSET RegistryNames}}

NoReturn == [op |-> "none"]

\* new ProgrammaticToolCaller(toolSet), no operation called on it yet.
RegistryBuilt(toolSet) ==
  /\ caller = ProgrammaticToolCaller(toolSet, Absent)
  /\ returned = NoReturn

\* The chat client as mounted: nothing loading, no request sent.
ClientMounted ==
  /\ isLoading = FALSE
  /\ abortControllerRef = 0
  /\ fetches = <<>>

NoParse == [state |-> "none"]

\* No response stream is being read.
ReaderIdle ==
  /\ reader = <<>>
  /\ parsed = NoParse

Init ==
  /\ Construct(Absent)
  /\ mcpConfigured = TRUE
  /\ RouteLoaded
  /\ RegistryBuilt(tools)
  /\ ClientMounted
  /\ ReaderIdle

(***************************************************************************)
(* createCodeExecutionTool.execute.                                        *)
(***************************************************************************)
\* The calls a script s has in flight once it runs on with n calls issued and
\* none pending: all of them when it starts them together, else the next one;
\* none when it is about to throw or has no call left.
IssueNext(s, n) ==
  IF n < Len(s.calls) /\ s.throwAt # n
  THEN IF s.par THEN 1..Len(s.calls) ELSE {n + 1}
  ELSE {}

\* execute({ code }): the race of sandbox.execute(code) with the timer starts,
\* and the script runs up to its first await.
Start(i, scripts) ==
  /\ pc[i] = "idle"
  /\ \A j \in Invocations : j < i => pc[j] # "idle"
  /\ \E s \in scripts :
       /\ script' = [script EXCEPT ![i] = s]
       /\ pending' = [pending EXCEPT ![i] = IssueNext(s, 0)]
       /\ issued' = [issued EXCEPT ![i] = Cardinality(IssueNext(s, 0))]
  /\ pc' = [pc EXCEPT ![i] = "racing"]
  /\ sstate' = [sstate EXCEPT ![i] = "running"]
  /\ executeCalls' = [executeCalls EXCEPT ![i] = @ + 1]
  /\ alone' = [alone EXCEPT ![i] = \A j \in Invocations : pc[j] # "racing"]
  /\ UNCHANGED <<trace, clock, response, resetCalls>>

\* The race was won by sandbox.execute: the output is derived and returned,
\* or an exception of the derivation reaches the outer catch; then finally.
ExecuteReturn(i, output, toolCalls) ==
  LET serializableOutput == SerializeOutput(output, toolCalls)
  IN /\ IF serializableOutput = THROW
        THEN /\ pc' = [pc EXCEPT ![i] = "failed"]
             /\ response' = [response EXCEPT ![i] =
                    [kind |-> "error",
                     message |-> "Code execution failed: ownKeys trap threw"]]
        ELSE /\ pc' = [pc EXCEPT ![i] = "completed"]
             /\ response' = [response EXCEPT ![i] =
                    [kind |-> "result", result |-> serializableOutput,
                     metadata |-> Metadata(toolCalls,
                                           getComprehensiveTokenSavings(trace))]]
     /\ trace' = <<>>
     /\ resetCalls' = [resetCalls EXCEPT ![i] = @ + 1]

\* The catch block without the finally block after it.
ExecuteCatchNoReset(i, message) ==
  /\ pc' = [pc EXCEPT ![i] = IF message = "Code execution timeout after 25 seconds"
                              THEN "timedout" ELSE "failed"]
  /\ response' = [response EXCEPT ![i] =
         [kind |-> "error", message |-> "Code execution failed: " \o message]]
  /\ UNCHANGED <<trace, resetCalls>>

\* The race rejected (by the script's error or by the timer): catch, finally.
ExecuteCatch(i, message) ==
  /\ pc' = [pc EXCEPT ![i] = IF message = "Code execution timeout after 25 seconds"
                              THEN "timedout" ELSE "failed"]
  /\ response' = [response EXCEPT ![i] =
         [kind |-> "error", message |-> "Code execution failed: " \o message]]
  /\ trace' = <<>>
  /\ resetCalls' = [resetCalls EXCEPT ![i] = @ + 1]

\* The timer answered by running the script again.
TimeoutRetry(i) ==
  /\ pc[i] = "racing"
  /\ script[i].dur > RaceTimeoutMs
  /\ executeCalls[i] < 2
  /\ executeCalls' = [executeCalls EXCEPT ![i] = @ + 1]
  /\ UNCHANGED <<pc, script, sstate, issued, pending, trace, clock, response,
                 resetCalls, alone>>

\* The 25 s timer fires before sandbox.execute has settled.
Timeout(i) ==
  /\ pc[i] = "racing"
  /\ script[i].dur > RaceTimeoutMs
  /\ ExecuteCatch(i, "Code execution timeout after 25 seconds")
  /\ UNCHANGED <<script, sstate, issued, pending, clock, executeCalls, alone>>

(***************************************************************************)
(* ToolOrchestrationSandbox.execute: the script and its capability calls.  *)
(***************************************************************************)
\* The record appended when call k of invocation i completes.
CallRecord(i, k) ==
  LET name == script[i].calls[k]
  IN [toolName |-> name,
      args |-> Obj(<<"x">>, <<Num("4")>>, "none"),
      result |-> Capability(name).result,
      error |-> Capability(name).error,
      isMCP |-> IsMCPName(name),
      run |-> i, idx |-> k, end |-> clock + 1]

\* A capability call completes (resolved or rejected): its record is appended,
\* and a script that awaited it runs on to its next await.
CallCompletes(i, k) ==
  /\ k \in pending[i]
  /\ trace' = Append(trace, CallRecord(i, k))
  /\ clock' = clock + 1
  /\ IF pending[i] = {k}
     THEN /\ pending' = [pending EXCEPT ![i] = IssueNext(script[i], issued[i])]
          /\ issued' = [issued EXCEPT ![i] =
                          @ + Cardinality(IssueNext(script[i], issued[i]))]
     ELSE /\ pending' = [pending EXCEPT ![i] = @ \ {k}]
          /\ UNCHANGED issued
  /\ UNCHANGED <<pc, script, sstate, response, executeCalls, resetCalls, alone>>

\* The race settling on whatever comes last.
RaceNeverSettled(i) == FALSE

\* Promise.race has settled for invocation i: execute has run on from its
\* await, and a later settlement of sandbox.execute(code) goes to nobody.
RaceSettled(i) == pc[i] # "racing"

\* The script returns: sandbox.execute resolves with { output, toolCalls }.
\* A script still racing returns only if it finishes within the budget; one
\* abandoned by the timer returns to nobody.
ScriptReturns(i) ==
  /\ sstate[i] = "running"
  /\ pending[i] = {}
  /\ issued[i] = Len(script[i].calls)
  /\ script[i].throwAt # issued[i]
  /\ pc[i] = "racing" => script[i].dur < RaceTimeoutMs
  /\ sstate' = [sstate EXCEPT ![i] = "returned"]
  /\ IF ~RaceSettled(i)
     THEN ExecuteReturn(i, script[i].ret, trace)
     ELSE UNCHANGED <<pc, response, trace, resetCalls>>
  /\ UNCHANGED <<script, issued, pending, clock, executeCalls, alone>>

\* The script throws an uncaught error: sandbox.execute rejects with it.
ScriptThrows(i) ==
  /\ sstate[i] = "running"
  /\ pending[i] = {}
  /\ script[i].throwAt = issued[i]
  /\ pc[i] = "racing" => script[i].dur < RaceTimeoutMs
  /\ sstate' = [sstate EXCEPT ![i] = "threw"]
  /\ IF ~RaceSettled(i)
     THEN ExecuteCatch(i, "script error")
     ELSE UNCHANGED <<pc, response, trace, resetCalls>>
  /\ UNCHANGED <<script, issued, pending, clock, executeCalls, alone>>

Next ==
  \E i \in Invocations :
    \/ Start(i, RunScripts) /\ UNCHANGED <<timeout, routeVars, restVars>>
    \/ Timeout(i) /\ UNCHANGED <<timeout, routeVars, restVars>>
    \/ \E k \in 1..MaxCalls : CallCompletes(i, k) /\ UNCHANGED <<timeout, routeVars, restVars>>
    \/ ScriptReturns(i) /\ UNCHANGED <<timeout, routeVars, restVars>>
    \/ ScriptThrows(i) /\ UNCHANGED <<timeout, routeVars, restVars>>

Spec == Init /\ [][Next]_vars

\* The timeout argument given to withProgrammaticCalling: none, or a number
\* of milliseconds below or above the race's 25000.
TimeoutArgs == {Absent, 10000, 30000}

\* The wrapper built with any of the timeout arguments.
InitTimeout ==
  /\ \E timeoutArg \in TimeoutArgs : Construct(timeoutArg)
  /\ mcpConfigured = TRUE
  /\ RouteLoaded
  /\ RegistryBuilt(tools)
  /\ ClientMounted
  /\ ReaderIdle

SpecTimeout == InitTimeout /\ [][Next]_vars

\* One invocation, over every output value and every capability.
NextOutput ==
  \/ Start(1, OutputScripts) /\ UNCHANGED <<timeout, routeVars, restVars>>
  \/ \E k \in 1..MaxCalls : CallCompletes(1, k) /\ UNCHANGED <<timeout, routeVars, restVars>>
  \/ ScriptReturns(1) /\ UNCHANGED <<timeout, routeVars, restVars>>

SpecOutput == Init /\ [][NextOutput]_vars

(***************************************************************************)
(* The chat route: getMCPManager and POST up to the returned stream.       *)
(***************************************************************************)
\* What req.json() yields: a body that does not parse, the JSON value null,
\* or the fields POST reads.  A modelConfig with a provider and a model is
\* one getModel accepts, or one it rejects.
Bodies ==
  {[json |-> "malformed"], [json |-> "null"]} \cup
  [json : {"ok"}, messages : {"array", "missing", "string"},
   modelConfig : {"ok", "unsupported", "missing", "noProvider", "noModel"},
   mcpServers : {"missing", "empty", "servers"}]

\* The failed check answered like an exception.
BadRequestAsServerError(q, text) ==
  [q EXCEPT !.pc = "done", !.status = 500,
            !.payload = [type |-> "json", error |-> text]]

\* new Response(text, { status: 400 })
BadRequest(q, text) ==
  [q EXCEPT !.pc = "done", !.status = 400, !.payload = [type |-> "text", text |-> text]]

\* The outer catch of POST: status 500 and the JSON body { error: message }.
ServerError(q, message) ==
  [q EXCEPT !.pc = "done", !.status = 500,
            !.payload = [type |-> "json", error |-> message]]

\* A manager just created, its initialize() called and pending.
NewManager(global) == [global |-> global, init |-> "pending", initCalls |-> 1]

\* manager.getTools(): the tools of the servers it has connected to.
getTools(manager) == IF manager.init = "ready" THEN MCPTools ELSE {}

\* POST from withProgrammaticCalling(allTools) to the returned Response: the
\* request's own wrapper, tool-call list and code-execution list.
Wrapped(q, allTools) ==
  LET w == withProgrammaticCalling(allTools, Absent)
      wrapped == [q EXCEPT !.allTools = allTools, !.enhancedTools = w.tools,
                           !.wrapper = w.wrapper,
                           !.toolCalls = <<>>, !.codeExecutions = <<>>]
  IN IF q.body.modelConfig = "unsupported"
     THEN ServerError(wrapped, "Unsupported provider")
     ELSE [wrapped EXCEPT !.pc = "streaming", !.toolCallEvents = <<>>,
                          !.toolCallInterval = TRUE, !.status = 200]

\* POST(req) up to its first await on an MCP manager, or to the end when it
\* awaits none.
Post(r, bodies) ==
  /\ request[r].pc = "idle"
  /\ \A q \in Requests : q < r => request[q].pc # "idle"
  /\ \E b \in bodies :
       LET q == [request[r] EXCEPT !.body = b]
       IN IF b.json # "ok"
          THEN /\ request' = [request EXCEPT ![r] =
                      ServerError(q, IF b.json = "malformed"
                                     THEN "Unexpected token in JSON"
                                     ELSE "Cannot destructure property 'messages'")]
               /\ UNCHANGED <<mcpManager, managers>>
          ELSE IF b.messages # "array"
          THEN /\ request' = [request EXCEPT ![r] =
                      BadRequest(q, "Messages array is required")]
               /\ UNCHANGED <<mcpManager, managers>>
          ELSE IF b.modelConfig \in {"missing", "noProvider", "noModel"}
          THEN /\ request' = [request EXCEPT ![r] =
                      BadRequest(q, "Model configuration is required")]
               /\ UNCHANGED <<mcpManager, managers>>
          ELSE IF b.mcpServers = "servers"
          THEN /\ managers' = Append(managers, NewManager(FALSE))
               /\ request' = [request EXCEPT ![r] =
                      [q EXCEPT !.pc = "tempInit", !.manager = Len(managers) + 1]]
               /\ UNCHANGED mcpManager
          ELSE IF mcpManager = 0
          THEN IF mcpConfigured
               THEN /\ managers' = Append(managers, NewManager(TRUE))
                    /\ mcpManager' = Len(managers) + 1
                    /\ request' = [request EXCEPT ![r] =
                           [q EXCEPT !.pc = "globalInit", !.manager = Len(managers) + 1]]
               ELSE /\ request' = [request EXCEPT ![r] = Wrapped(q, tools)]
                    /\ UNCHANGED <<mcpManager, managers>>
          ELSE /\ request' = [request EXCEPT ![r] =
                      Wrapped([q EXCEPT !.manager = mcpManager,
                                        !.globalMCPManager = mcpManager],
                              tools \cup getTools(managers[mcpManager]))]
               /\ UNCHANGED <<mcpManager, managers>>
  /\ UNCHANGED <<mcpConfigured, exec, sandboxes>>

\* tempMCPManager.initialize() with its rejection propagating out of POST.
TempInitDoneUncaught(r, ok) ==
  /\ request[r].pc = "tempInit"
  /\ managers' = [managers EXCEPT ![request[r].manager].init =
                     IF ok THEN "ready" ELSE "failed"]
  /\ request' = [request EXCEPT ![r] =
         IF ok THEN Wrapped(@, tools \cup MCPTools)
         ELSE ServerError([@ EXCEPT !.initFailed = TRUE], "MCP initialization failed")]
  /\ UNCHANGED <<mcpConfigured, mcpManager, exec, sandboxes>>

\* tempMCPManager.initialize() settles: its tools are merged, or the failure
\* is logged; POST runs on to the returned Response.
TempInitDone(r, ok) ==
  /\ request[r].pc = "tempInit"
  /\ managers' = [managers EXCEPT ![request[r].manager].init =
                     IF ok THEN "ready" ELSE "failed"]
  /\ request' = [request EXCEPT ![r] =
         Wrapped([@ EXCEPT !.initFailed = ~ok],
                 IF ok THEN tools \cup MCPTools ELSE tools)]
  /\ UNCHANGED <<mcpConfigured, mcpManager, exec, sandboxes>>

\* mcpManager.initialize() of getMCPManager settles: on failure the global is
\* set to null; getMCPManager returns the global and POST runs on.
GlobalInitDone(r, ok) ==
  /\ request[r].pc = "globalInit"
  /\ managers' = [managers EXCEPT ![request[r].manager].init =
                     IF ok THEN "ready" ELSE "failed"]
  /\ mcpManager' = IF ok THEN mcpManager ELSE 0
  /\ request' = [request EXCEPT ![r] =
         Wrapped([@ EXCEPT !.initFailed = ~ok, !.globalMCPManager = mcpManager'],
                 IF mcpManager' # 0 THEN tools \cup getTools(managers'[mcpManager'])
                 ELSE tools)]
  /\ UNCHANGED <<mcpConfigured, exec, sandboxes>>

(***************************************************************************)
(* The chat route: the model's steps and the final metadata event.         *)
(***************************************************************************)
\* The code of a code_execution call, and the values its script returns.
Codes == {"a"}
RouteOutputs == {Undefined}

\* Every request's wrapper is the sandbox of every request.
SandboxShared(r) == 1

\* The sandbox a request's code_execution tool runs scripts in: the one its
\* own wrapper built.
SandboxOf(r) == r

\* The model calls code_execution: execute({ code }) starts the script.
CodeExecutionStart(r, code) ==
  /\ request[r].pc = "streaming"
  /\ exec[r].state = "none"
  /\ exec' = [exec EXCEPT ![r] = [state |-> "running", code |-> code]]
  /\ UNCHANGED <<mcpConfigured, mcpManager, managers, request, sandboxes>>

\* A capability call of the running script completes: its record is appended
\* to the trace of the sandbox.
SandboxCall(r, name) ==
  /\ exec[r].state = "running"
  /\ name \in request[r].wrapper.toolRegistry \cup request[r].wrapper.mcpToolNames
  /\ sandboxes' = [sandboxes EXCEPT ![SandboxOf(r)] =
         Append(@, [toolName |-> name,
                    args |-> Obj(<<"x">>, <<Num("4")>>, "none"),
                    result |-> Capability(name).result,
                    error |-> Capability(name).error,
                    isMCP |-> IsMCPName(name),
                    req |-> r])]
  /\ UNCHANGED <<mcpConfigured, mcpManager, managers, request, exec>>

\* The script returns: execute derives { result, metadata } from the trace of
\* the sandbox and resets the sandbox.
CodeExecutionReturn(r, output) ==
  LET toolCalls == sandboxes[SandboxOf(r)]
  IN /\ exec[r].state = "running"
     /\ exec' = [exec EXCEPT ![r] =
            [state |-> "returned", code |-> @.code,
             output |-> [result |-> SerializeOutput(output, toolCalls),
                         metadata |-> Metadata(toolCalls,
                                        getComprehensiveTokenSavings(
                                          sandboxes[SandboxOf(r)]))]]]
     /\ sandboxes' = [sandboxes EXCEPT ![SandboxOf(r)] = <<>>]
     /\ UNCHANGED <<mcpConfigured, mcpManager, managers, request>>

\* The script throws or the 25 s timer fires: execute throws after the reset.
CodeExecutionThrows(r) ==
  /\ exec[r].state = "running"
  /\ exec' = [exec EXCEPT ![r] = [state |-> "threw", code |-> @.code]]
  /\ sandboxes' = [sandboxes EXCEPT ![SandboxOf(r)] = <<>>]
  /\ UNCHANGED <<mcpConfigured, mcpManager, managers, request>>

\* onStepFinish for a step whose tool call is the code_execution call that
\* has settled: the call is pushed to toolCalls, and to codeExecutions when
\* the step holds its result.
StepFinish(r) ==
  LET settled == exec[r].state = "returned"
      id == Len(request[r].steps) + 1
      toolCallData == [id |-> id, toolName |-> "code_execution",
                       args |-> exec[r].code,
                       result |-> IF settled THEN exec[r].output ELSE Undefined,
                       req |-> r]
      step == [toolCallId |-> id, toolName |-> "code_execution",
               code |-> exec[r].code, hasResult |-> settled,
               output |-> IF settled THEN exec[r].output ELSE Undefined]
  IN /\ request[r].pc = "streaming"
     /\ exec[r].state \in {"returned", "threw"}
     /\ request' = [request EXCEPT
            ![r].steps = Append(@, step),
            ![r].toolCalls = Append(@, toolCallData),
            ![r].toolCallEvents = Append(@, [id |-> id, toolName |-> "code_execution"]),
            ![r].codeExecutions =
               IF settled
               THEN Append(@, [code |-> exec[r].code,
                               result |-> exec[r].output.result,
                               metadata |-> exec[r].output.metadata])
               ELSE @]
     /\ exec' = [exec EXCEPT ![r] = NoExec]
     /\ UNCHANGED <<mcpConfigured, mcpManager, managers, sandboxes>>

\* The model calls a tool of the set directly, and onStepFinish for that step.
ToolStep(r, name) ==
  LET id == Len(request[r].steps) + 1
      output == Capability(name).result
  IN /\ request[r].pc = "streaming"
     /\ exec[r].state = "none"
     /\ name \in request[r].enhancedTools \ {"code_execution"}
     /\ request' = [request EXCEPT
            ![r].steps = Append(@, [toolCallId |-> id, toolName |-> name,
                                    code |-> "", hasResult |-> TRUE,
                                    output |-> output]),
            ![r].toolCalls = Append(@, [id |-> id, toolName |-> name,
                                        args |-> Obj(<<"x">>, <<Num("4")>>, "none"),
                                        result |-> IF Truthy(output) THEN output
                                                   ELSE Undefined,
                                        req |-> r]),
            ![r].toolCallEvents = Append(@, [id |-> id, toolName |-> name])]
     /\ UNCHANGED <<mcpConfigured, mcpManager, managers, exec, sandboxes>>

\* The loop over the final result's steps: the first entry with the step's
\* code takes the step's metadata and result.
RECURSIVE ReExtract(_, _, _)
ReExtract(ces, steps, k) ==
  IF k > Len(steps) THEN ces
  ELSE LET st == steps[k]
           found == {j \in 1..Len(ces) : ces[j].code = st.code}
       IN IF st.toolName = "code_execution" /\ st.hasResult /\ found # {}
          THEN LET j == CHOOSE x \in found : \A y \in found : x <= y
               IN ReExtract([ces EXCEPT ![j].metadata = st.output.metadata,
                                        ![j].result = IF Truthy(st.output.result)
                                                      THEN st.output.result
                                                      ELSE st.output],
                            steps, k + 1)
          ELSE ReExtract(ces, steps, k + 1)

\* The '__TOOL_CALL__' items of a list of queued events.
ToolCallItems(events) ==
  [k \in 1..Len(events) |->
     [kind |-> "tool", id |-> events[k].id, toolName |-> events[k].toolName]]

\* streamPendingToolCalls() enqueueing the queued events and leaving them
\* in the queue.
streamPendingToolCallsKeep(q) ==
  IF q.pc = "streaming"
  THEN [q EXCEPT !.sent = @ \o ToolCallItems(q.toolCallEvents)]
  ELSE q

\* streamPendingToolCalls(): while the queue is not empty and
\* streamController is set (it is null once the stream is closed or
\* errored), shift an event and enqueue it.
streamPendingToolCalls(q) ==
  IF q.pc = "streaming"
  THEN [q EXCEPT !.sent = @ \o ToolCallItems(q.toolCallEvents),
                 !.toolCallEvents = <<>>]
  ELSE q

\* The text chunks of the model's answer.
Chunks == {"Hi"}

\* The text stream yields a chunk: it is enqueued, and the queued tool call
\* events after it.
TextChunk(r, chunk) ==
  /\ request[r].pc = "streaming"
  /\ request' = [request EXCEPT ![r] =
         streamPendingToolCalls(
           [@ EXCEPT !.sent = Append(@, [kind |-> "text", text |-> chunk])])]
  /\ UNCHANGED <<mcpConfigured, mcpManager, managers, exec, sandboxes>>

\* The 50 ms interval fires.
IntervalFlush(r) ==
  /\ request[r].toolCallInterval
  /\ request' = [request EXCEPT ![r] = streamPendingToolCalls(@)]
  /\ UNCHANGED <<mcpConfigured, mcpManager, managers, exec, sandboxes>>

\* The end of the stream with the metadata event enqueued before the
\* remaining tool call events.
StreamCloseMetadataFirst(r, stepsVisible) ==
  LET data == [type |-> "metadata",
               toolCallCount |-> Len(request[r].toolCalls),
               toolCalls |-> request[r].toolCalls,
               codeExecutions |->
                 ReExtract(request[r].codeExecutions,
                           IF stepsVisible THEN request[r].steps ELSE <<>>, 1)]
      first == [request[r] EXCEPT !.toolCallInterval = FALSE,
                                  !.sent = Append(@, [kind |-> "metadata", data |-> data])]
  IN /\ request[r].pc = "streaming"
     /\ exec[r].state = "none"
     /\ request' = [request EXCEPT ![r] =
            [streamPendingToolCalls(first) EXCEPT
               !.pc = "closed", !.payload = data, !.tokensSavedReads = @ + 1]]
     /\ UNCHANGED <<mcpConfigured, mcpManager, managers, exec, sandboxes>>

\* The text stream ends: the interval is cleared, the remaining tool call
\* events are flushed, the final metadata event (with the context manager's
\* counter, read here) is enqueued and the stream closed.  The final result
\* exposes its steps as an array, or does not.
StreamClose(r, stepsVisible) ==
  LET flushed == streamPendingToolCalls([request[r] EXCEPT !.toolCallInterval = FALSE])
      data == [type |-> "metadata",
               toolCallCount |-> Len(request[r].toolCalls),
               toolCalls |-> request[r].toolCalls,
               codeExecutions |->
                 ReExtract(request[r].codeExecutions,
                           IF stepsVisible THEN request[r].steps ELSE <<>>, 1)]
  IN /\ request[r].pc = "streaming"
     /\ exec[r].state = "none"
     /\ request' = [request EXCEPT ![r] =
            [flushed EXCEPT
               !.pc = "closed", !.payload = data, !.tokensSavedReads = @ + 1,
               !.sent = Append(@, [kind |-> "metadata", data |-> data])]]
     /\ UNCHANGED <<mcpConfigured, mcpManager, managers, exec, sandboxes>>

\* An exception reaches the catch block of start(): thrown in the loop over
\* the text stream (the interval keeps running), or after the final flush by
\* the awaits of the result and its usage.  streamController is set to null
\* and the stream is errored, with no metadata event.
StreamFails(r, afterFlush) ==
  /\ request[r].pc = "streaming"
  /\ afterFlush => exec[r].state = "none"
  /\ request' = [request EXCEPT ![r] =
         IF afterFlush
         THEN [streamPendingToolCalls([@ EXCEPT !.toolCallInterval = FALSE])
                 EXCEPT !.pc = "errored"]
         ELSE [@ EXCEPT !.pc = "errored"]]
  /\ UNCHANGED <<mcpConfigured, mcpManager, managers, exec, sandboxes>>

NextRoute ==
  \E r \in Requests :
    \/ Post(r, Bodies) /\ UNCHANGED <<execVars, timeout, restVars>>
    \/ \E ok \in BOOLEAN : TempInitDone(r, ok) /\ UNCHANGED <<execVars, timeout, restVars>>
    \/ \E ok \in BOOLEAN : GlobalInitDone(r, ok) /\ UNCHANGED <<execVars, timeout, restVars>>
    \/ \E code \in Codes :
         /\ Len(request[r].steps) < MaxSteps
         /\ CodeExecutionStart(r, code) /\ UNCHANGED <<execVars, timeout, restVars>>
    \/ \E name \in ToolNames :
         /\ Len(sandboxes[SandboxOf(r)]) < MaxRouteCalls
         /\ SandboxCall(r, name) /\ UNCHANGED <<execVars, timeout, restVars>>
    \/ \E output \in RouteOutputs :
         CodeExecutionReturn(r, output) /\ UNCHANGED <<execVars, timeout, restVars>>
    \/ CodeExecutionThrows(r) /\ UNCHANGED <<execVars, timeout, restVars>>
    \/ StepFinish(r) /\ UNCHANGED <<execVars, timeout, restVars>>
    \/ \E name \in ToolNames :
         /\ Len(request[r].steps) < MaxSteps
         /\ ToolStep(r, name) /\ UNCHANGED <<execVars, timeout, restVars>>
    \/ \E v \in BOOLEAN : StreamClose(r, v) /\ UNCHANGED <<execVars, timeout, restVars>>
    \/ \E afterFlush \in BOOLEAN :
         StreamFails(r, afterFlush) /\ UNCHANGED <<execVars, timeout, restVars>>

InitRoute ==
  /\ Construct(Absent)
  /\ mcpConfigured \in BOOLEAN
  /\ RouteLoaded
  /\ RegistryBuilt(tools)
  /\ ClientMounted
  /\ ReaderIdle

SpecRoute == InitRoute /\ [][NextRoute]_vars

(***************************************************************************)
(* Chat requests that use the global MCP manager.                          *)
(***************************************************************************)
\* Bodies that pass the checks of POST and name no MCP server.
ManagerBodies ==
  {b \in Bodies : b.json = "ok" /\ b.messages = "array" /\ b.modelConfig = "ok"
                     /\ b.mcpServers \in {"missing", "empty"}}

NextManager ==
  \E r \in Requests :
    \/ Post(r, ManagerBodies) /\ UNCHANGED <<execVars, timeout, restVars>>
    \/ \E ok \in BOOLEAN : GlobalInitDone(r, ok) /\ UNCHANGED <<execVars, timeout, restVars>>
    \/ \E v \in BOOLEAN : StreamClose(r, v) /\ UNCHANGED <<execVars, timeout, restVars>>
    \/ \E afterFlush \in BOOLEAN :
         StreamFails(r, afterFlush) /\ UNCHANGED <<execVars, timeout, restVars>>

SpecManager == InitRoute /\ [][NextManager]_vars

(***************************************************************************)
(* One chat request and its response stream in full.                       *)
(***************************************************************************)
\* Largest number of model steps of the streamed request.
MaxStreamSteps == 2
\* Largest number of text chunks of the streamed request.
MaxChunks == 2

\* The code texts of the streamed request's code_execution calls.
StreamCodes == {"a", "b"}

\* Bodies that pass the checks of POST and name no MCP server.
StreamBodies ==
  {b \in Bodies : b.json = "ok" /\ b.messages = "array" /\ b.modelConfig = "ok"
                     /\ b.mcpServers = "missing"}

\* The text chunks enqueued so far.
TextItems(sent) == SelectSeq(sent, LAMBDA item : item.kind = "text")

NextStream ==
  \/ Post(1, StreamBodies) /\ UNCHANGED <<execVars, timeout, restVars>>
  \/ \E chunk \in Chunks :
       /\ Len(TextItems(request[1].sent)) < MaxChunks
       /\ TextChunk(1, chunk) /\ UNCHANGED <<execVars, timeout, restVars>>
  \/ IntervalFlush(1) /\ UNCHANGED <<execVars, timeout, restVars>>
  \/ \E code \in StreamCodes :
       /\ Len(request[1].steps) < MaxStreamSteps
       /\ CodeExecutionStart(1, code) /\ UNCHANGED <<execVars, timeout, restVars>>
  \/ \E name \in ToolNames :
       /\ Len(sandboxes[SandboxOf(1)]) < MaxRouteCalls
       /\ SandboxCall(1, name) /\ UNCHANGED <<execVars, timeout, restVars>>
  \/ \E output \in RouteOutputs :
       CodeExecutionReturn(1, output) /\ UNCHANGED <<execVars, timeout, restVars>>
  \/ CodeExecutionThrows(1) /\ UNCHANGED <<execVars, timeout, restVars>>
  \/ StepFinish(1) /\ UNCHANGED <<execVars, timeout, restVars>>
  \/ \E name \in ToolNames :
       /\ Len(request[1].steps) < MaxStreamSteps
       /\ ToolStep(1, name) /\ UNCHANGED <<execVars, timeout, restVars>>
  \/ \E v \in BOOLEAN : StreamClose(1, v) /\ UNCHANGED <<execVars, timeout, restVars>>
  \/ \E afterFlush \in BOOLEAN :
       StreamFails(1, afterFlush) /\ UNCHANGED <<execVars, timeout, restVars>>

\* A deployment with no MCP server configured.
InitStream ==
  /\ Construct(Absent)
  /\ mcpConfigured = FALSE
  /\ RouteLoaded
  /\ RegistryBuilt(tools)
  /\ ClientMounted
  /\ ReaderIdle

SpecStream == InitStream /\ [][NextStream]_vars

(***************************************************************************)
(* The operations of a ProgrammaticToolCaller after its construction.      *)
(***************************************************************************)
\* createEnhancedToolSet() adding code_execution to the wrapper's own tools
\* object instead of to a copy.
CreateEnhancedToolSetInPlace ==
  /\ caller' = [caller EXCEPT !.tools = @ \cup {ToolDef("code_execution", TRUE)}]
  /\ returned' = [op |-> "createEnhancedToolSet",
                  value |-> createEnhancedToolSet(caller)]

\* createCodeExecutionTool(): a tool whose description lists the local and
\* the MCP tool names.
CreateCodeExecutionTool ==
  /\ returned' = [op |-> "createCodeExecutionTool",
                  value |-> [local |-> caller.localToolNames,
                             mcp |-> caller.mcpToolNames]]
  /\ UNCHANGED caller

\* execute({ code }) of that tool, for a script that calls one capability:
\* the sandbox looks the name up in the registry it was given, or in the
\* bridge, and reports the call.
RegistryExecute(name) ==
  /\ name \in caller.toolRegistry \cup caller.mcpToolNames
  /\ returned' = [op |-> "execute",
                  value |-> [toolName |-> name,
                             isMCP |-> name \notin caller.toolRegistry]]
  /\ UNCHANGED caller

\* createEnhancedToolSet(): { ...this.tools, code_execution }
CreateEnhancedToolSet ==
  /\ returned' = [op |-> "createEnhancedToolSet",
                  value |-> createEnhancedToolSet(caller)]
  /\ UNCHANGED caller

\* generateToolDocumentation(): one entry per tool of this.tools.
GenerateToolDocumentation ==
  /\ returned' = [op |-> "generateToolDocumentation",
                  value |-> {d.name : d \in caller.tools}]
  /\ UNCHANGED caller

\* getAllToolNames()
GetAllToolNames ==
  /\ returned' = [op |-> "getAllToolNames", value |-> getAllToolNames(caller)]
  /\ UNCHANGED caller

\* getEfficiencyMetrics(): the sandbox's estimate, with no run in progress.
GetEfficiencyMetrics ==
  /\ returned' = [op |-> "getEfficiencyMetrics",
                  value |-> [intermediateTokensSaved |-> 0]]
  /\ UNCHANGED caller

NextRegistry ==
  \/ CreateCodeExecutionTool /\ UNCHANGED <<execVars, timeout, routeVars, clientVars, parserVars>>
  \/ \E name \in RegistryNames :
       RegistryExecute(name) /\ UNCHANGED <<execVars, timeout, routeVars, clientVars, parserVars>>
  \/ CreateEnhancedToolSet /\ UNCHANGED <<execVars, timeout, routeVars, clientVars, parserVars>>
  \/ GenerateToolDocumentation /\ UNCHANGED <<execVars, timeout, routeVars, clientVars, parserVars>>
  \/ GetAllToolNames /\ UNCHANGED <<execVars, timeout, routeVars, clientVars, parserVars>>
  \/ GetEfficiencyMetrics /\ UNCHANGED <<execVars, timeout, routeVars, clientVars, parserVars>>

\* A ProgrammaticToolCaller built from any of the tool sets.
InitRegistry ==
  /\ Construct(Absent)
  /\ mcpConfigured = TRUE
  /\ RouteLoaded
  /\ \E toolSet \in ToolSets : RegistryBuilt(toolSet)
  /\ ClientMounted
  /\ ReaderIdle

SpecRegistry == InitRegistry /\ [][NextRegistry]_vars

(***************************************************************************)
(* The chat client: handleSubmit, its catch and finally, and handleStop.   *)
(* fetches[i] is the i-th request that handleSubmit has started: where its *)
(* async function stands (fetching: at await fetch; reading: in the loop   *)
(* over reader.read(); ended: past its finally block), whether its         *)
(* AbortController was aborted, and how it ended.  abortControllerRef is   *)
(* the index of the request whose controller the ref holds, or 0 for null. *)
(***************************************************************************)
MaxSubmits == 3

Texts == {"", " ", "hi"}

Whitespace == {" ", "\n"}

\* String.prototype.trim
RECURSIVE trim(_)
trim(text) ==
  IF text = "" THEN ""
  ELSE IF SubSeq(text, 1, 1) \in Whitespace THEN trim(SubSeq(text, 2, Len(text)))
  ELSE IF SubSeq(text, Len(text), Len(text)) \in Whitespace
       THEN trim(SubSeq(text, 1, Len(text) - 1))
  ELSE text

\* The requests whose async function has not run its finally block.
Unfinished == {i \in 1..Len(fetches) : fetches[i].pc # "ended"}

\* The finally block of handleSubmit, run by request i.
Finally(i, outcome) ==
  /\ isLoading' = FALSE
  /\ abortControllerRef' = 0
  /\ fetches' = [fetches EXCEPT ![i] = [@ EXCEPT !.pc = "ended", !.outcome = outcome]]

\* handleSubmit up to its first await: does nothing for a blank text or
\* while isLoading, else sets isLoading, stores a new AbortController in
\* the ref and starts the fetch with its signal.
HandleSubmit(text) ==
  IF trim(text) = "" \/ isLoading
  THEN UNCHANGED clientVars
  ELSE /\ isLoading' = TRUE
       /\ abortControllerRef' = Len(fetches) + 1
       /\ fetches' = Append(fetches, [pc |-> "fetching", aborted |-> FALSE,
                                       outcome |-> "none"])

\* fetch resolves with response.ok and the read loop starts.
ResponseOk(i) ==
  /\ i \in Unfinished
  /\ fetches[i].pc = "fetching" /\ ~fetches[i].aborted
  /\ fetches' = [fetches EXCEPT ![i] = [@ EXCEPT !.pc = "reading"]]
  /\ UNCHANGED <<isLoading, abortControllerRef>>

\* fetch rejects, or resolves with a response that is not ok, or a read
\* rejects: throw, catch (an Error message is shown), finally.
RequestFails(i) ==
  /\ i \in Unfinished
  /\ ~fetches[i].aborted
  /\ Finally(i, "Error")

\* reader.read() reports done: the loop ends and finally runs.
ReadDone(i) ==
  /\ i \in Unfinished
  /\ fetches[i].pc = "reading" /\ ~fetches[i].aborted
  /\ Finally(i, "complete")

\* The pending fetch or read of an aborted request rejects with AbortError:
\* catch (logs only), finally.
AbortDelivered(i) ==
  /\ i \in Unfinished
  /\ fetches[i].aborted
  /\ Finally(i, "AbortError")

\* handleStop, the click handler of the Stop button, which is rendered
\* while isLoading.
HandleStop ==
  /\ isLoading
  /\ IF abortControllerRef # 0
     THEN /\ fetches' = [fetches EXCEPT ![abortControllerRef] = [@ EXCEPT !.aborted = TRUE]]
          /\ isLoading' = FALSE
          /\ UNCHANGED abortControllerRef
     ELSE UNCHANGED clientVars

NextClient ==
  \/ \E text \in Texts :
       /\ Len(fetches) < MaxSubmits
       /\ HandleSubmit(text)
       /\ UNCHANGED <<execVars, timeout, routeVars, registryVars, parserVars>>
  \/ HandleStop /\ UNCHANGED <<execVars, timeout, routeVars, registryVars, parserVars>>
  \/ \E i \in 1..MaxSubmits :
       \/ ResponseOk(i) /\ UNCHANGED <<execVars, timeout, routeVars, registryVars, parserVars>>
       \/ RequestFails(i) /\ UNCHANGED <<execVars, timeout, routeVars, registryVars, parserVars>>
       \/ ReadDone(i) /\ UNCHANGED <<execVars, timeout, routeVars, registryVars, parserVars>>
       \/ AbortDelivered(i) /\ UNCHANGED <<execVars, timeout, routeVars, registryVars, parserVars>>

InitClient ==
  /\ Construct(Absent)
  /\ mcpConfigured = TRUE
  /\ RouteLoaded
  /\ RegistryBuilt(tools)
  /\ ClientMounted
  /\ ReaderIdle

SpecClient == InitClient /\ [][NextClient]_vars

(***************************************************************************)
(* The response stream on the wire and the client's parser of it.  The     *)
(* server enqueues strings (text chunks, tool call events, the metadata    *)
(* event); the transport delivers their concatenation to reader.read() in  *)
(* chunks cut anywhere.  reader holds the chunks not yet read, parsed the  *)
(* locals of the read loop of handleSubmit.  The characters are ASCII, for *)
(* which TextDecoder.decode(value, {stream: true}) yields the characters   *)
(* of the chunk.                                                           *)
(***************************************************************************)
MaxItems == 2
MaxReadChunks == 3

ToolCallMarker == "__TOOL_CALL__:"
MetadataMarker == "__METADATA__:"

EventIds == {"a", "b"}

Digits == "0123456789"

\* The events the server serializes.
ToolCallEvent(id) == [kind |-> "tool", id |-> id, toolName |-> "double"]
MetadataEvent(n) == [kind |-> "metadata", data |-> [type |-> "metadata", toolCallCount |-> n]]
JSONValues ==
  {ToolCallEvent(id) : id \in EventIds} \cup {MetadataEvent(n) : n \in 0..MaxItems}

\* JSON.stringify of an event: one line, no raw newline in it.
JSONstringify(event) ==
  IF event.kind = "tool"
  THEN "{\"type\":\"tool-call\",\"id\":\"" \o event.id \o "\"}"
  ELSE "{\"type\":\"metadata\",\"toolCallCount\":"
         \o SubSeq(Digits, event.data.toolCallCount + 1, event.data.toolCallCount + 1)
         \o "}"

SyntaxError == [kind |-> "SyntaxError"]

\* JSON.parse: the event of a complete JSON text, a SyntaxError otherwise.
JSONparse(text) ==
  IF \E event \in JSONValues : JSONstringify(event) = text
  THEN CHOOSE event \in JSONValues : JSONstringify(event) = text
  ELSE SyntaxError

\* What controller.enqueue is given for an item of the stream.
Enqueued(item) ==
  IF item.kind = "text" THEN item.text
  ELSE IF item.kind = "tool" THEN "\n" \o ToolCallMarker \o JSONstringify(item) \o "\n"
  ELSE "\n\n" \o MetadataMarker \o JSONstringify(item) \o "\n"

RECURSIVE Wire(_)
Wire(sent) == IF sent = <<>> THEN "" ELSE Enqueued(Head(sent)) \o Wire(Tail(sent))

\* The ways the transport cuts a string into at most n chunks.
RECURSIVE Splits(_, _)
Splits(w, n) ==
  IF w = "" THEN {<<>>}
  ELSE {<<w>>} \cup
       (IF n <= 1 THEN {}
        ELSE UNION {{<<SubSeq(w, 1, i)>> \o rest :
                       rest \in Splits(SubSeq(w, i + 1, Len(w)), n - 1)} :
                    i \in 1..(Len(w) - 1)})

\* String.prototype.indexOf, includes, substring and split
indexOf(text, sub) ==
  LET at == {i \in 1..(Len(text) - Len(sub) + 1) : SubSeq(text, i, i + Len(sub) - 1) = sub}
  IN IF at = {} THEN -1 ELSE (CHOOSE i \in at : \A j \in at : i <= j) - 1

includes(text, sub) == indexOf(text, sub) # -1

substring(text, from, to) == SubSeq(text, from + 1, to)

RECURSIVE split(_, _)
split(text, sep) ==
  LET k == indexOf(text, sep)
  IN IF k = -1 THEN <<text>>
     ELSE <<substring(text, 0, k)>>
            \o split(substring(text, k + Len(sep), Len(text)), sep)

\* Map.prototype.set on streamingToolCalls, kept in insertion order.
MapSet(calls, toolCall) ==
  IF \E k \in 1..Len(calls) : calls[k].id = toolCall.id
  THEN [k \in 1..Len(calls) |-> IF calls[k].id = toolCall.id THEN toolCall ELSE calls[k]]
  ELSE Append(calls, toolCall)

\* The loop over parts[i], i >= 1, of the __TOOL_CALL__ branch.
RECURSIVE ProcessParts(_, _, _)
ProcessParts(parts, i, st) ==
  IF i > Len(parts) THEN st
  ELSE LET part == parts[i]
           jsonEnd == indexOf(part, "\n")
           event == JSONparse(trim(substring(part, 0, jsonEnd)))
       IN IF jsonEnd > 0
          THEN ProcessParts(parts, i + 1,
                 [st EXCEPT
                    !.streamingToolCalls =
                       IF event.kind = "tool"
                       THEN MapSet(@, [id |-> event.id, toolName |-> event.toolName])
                       ELSE @,
                    !.textContent = @ \o substring(part, jsonEnd + 1, Len(part))])
          ELSE ProcessParts(parts, i + 1,
                 [st EXCEPT !.toolCallBuffer = ToolCallMarker \o part])

\* The body of the read loop for one chunk.
ProcessChunk(p, chunk) ==
  IF includes(chunk, ToolCallMarker)
  THEN LET parts == split(p.toolCallBuffer \o chunk, ToolCallMarker)
           st == ProcessParts(parts, 2,
                   [textContent |-> parts[1], toolCallBuffer |-> "",
                    streamingToolCalls |-> p.streamingToolCalls])
       IN [p EXCEPT !.assistantContent = @ \o st.textContent,
                    !.toolCallBuffer = st.toolCallBuffer,
                    !.streamingToolCalls = st.streamingToolCalls]
  ELSE IF includes(chunk, MetadataMarker)
  THEN LET parts == split(chunk, MetadataMarker)
           metadata == JSONparse(trim(parts[2]))
       IN [p EXCEPT !.assistantContent = @ \o parts[1],
                    !.metrics = IF metadata.kind = "metadata"
                                THEN Append(@, metadata.data) ELSE @]
  ELSE [p EXCEPT !.assistantContent = @ \o chunk]

\* The items before the metadata event of the streams the server closes.
RECURSIVE Served(_)
Served(n) ==
  IF n = 0 THEN {<<>>}
  ELSE LET shorter == Served(n - 1)
       IN shorter \cup
          {Append(sent, [kind |-> "text", text |-> chunk]) :
             sent \in shorter, chunk \in Chunks} \cup
          {Append(sent, ToolCallEvent(id)) :
             sent \in {t \in shorter : Len(t) = n - 1}, id \in EventIds}

ToolCallsOf(sent) == SelectSeq(sent, LAMBDA item : item.kind = "tool")

\* Every tool call has its own toolCallId.
DistinctIds(sent) ==
  \A j, k \in 1..Len(sent) :
    (sent[j].kind = "tool" /\ sent[k].kind = "tool" /\ sent[j].id = sent[k].id) => j = k

ServedStreams ==
  {Append(sent, MetadataEvent(Len(ToolCallsOf(sent)))) :
     sent \in {t \in Served(MaxItems) : DistinctIds(t)}}

\* response.body.getReader() on a stream the server closes, and the locals
\* of handleSubmit before the loop.
GetReader(sent, chunks) ==
  /\ reader = chunks
  /\ parsed = [state |-> "reading", served |-> sent,
               assistantContent |-> "", toolCallBuffer |-> "",
               streamingToolCalls |-> <<>>, metrics |-> <<>>]

\* One turn of the loop: reader.read() yields a chunk.
Read ==
  /\ parsed.state = "reading"
  /\ reader # <<>>
  /\ parsed' = ProcessChunk(parsed, Head(reader))
  /\ reader' = Tail(reader)

\* reader.read() reports done.
ReadEnd ==
  /\ parsed.state = "reading"
  /\ reader = <<>>
  /\ parsed' = [parsed EXCEPT !.state = "done"]
  /\ UNCHANGED reader

NextParser ==
  \/ Read /\ UNCHANGED <<execVars, timeout, routeVars, registryVars, clientVars>>
  \/ ReadEnd /\ UNCHANGED <<execVars, timeout, routeVars, registryVars, clientVars>>

InitParser ==
  /\ Construct(Absent)
  /\ mcpConfigured = TRUE
  /\ RouteLoaded
  /\ RegistryBuilt(tools)
  /\ ClientMounted
  /\ \E sent \in ServedStreams :
       \E chunks \in Splits(Wire(sent), MaxReadChunks) : GetReader(sent, chunks)

SpecParser == InitParser /\ [][NextParser]_vars

(***************************************************************************)
(* Properties of the governed run (specification Spec).                    *)
(***************************************************************************)
Ended(i) == pc[i] \in {"completed", "failed", "timedout"}

TimeoutResponse ==
  [kind |-> "error",
   message |-> "Code execution failed: Code execution timeout after 25 seconds"]

\* C1: an invocation whose script runs past the 25000 ms budget ends with the
\* timeout error and with nothing else: the timer can fire whatever calls are
\* outstanding, the caller receives the timeout error, and sandbox.execute has
\* been called exactly once for the invocation.
C1_TimeoutSurfacedOnce ==
  \A i \in Invocations :
    /\ executeCalls[i] <= 1
    /\ (pc[i] = "racing" /\ script[i].dur > RaceTimeoutMs) => ENABLED Timeout(i)
    /\ (Ended(i) /\ script[i].dur > RaceTimeoutMs) =>
         /\ pc[i] = "timedout"
         /\ response[i] = TimeoutResponse
         /\ executeCalls[i] = 1

\* A run has timed out while a capability call of its script is outstanding.
C1_Witness ==
  \E i \in Invocations :
    /\ pc[i] = "timedout"
    /\ response[i] = TimeoutResponse
    /\ pending[i] # {}
    /\ executeCalls[i] = 1

\* Invocation i ran with no other invocation racing: the earlier ones had
\* ended when it started, and it had ended when the next one started.
Sequential(i) == alone[i] /\ (i < MaxInv => alone[i + 1])

\* C2: in a sequence of invocations made one after the other, the trace
\* reported for a run holds only records of calls issued by that run's own
\* script (so a run whose script makes no call reports an empty trace).
C2_NoCrossRunLeak ==
  \A i \in Invocations :
    (response[i].kind = "result" /\ Sequential(i)) =>
      \A k \in 1..Len(response[i].metadata.sandboxToolCalls) :
        response[i].metadata.sandboxToolCalls[k].run = i

\* C3: at most one execution of sandbox.execute is in progress at any time.
C3_OneActiveRun == Cardinality({i \in Invocations : sstate[i] = "running"}) <= 1

\* C4: every invocation calls sandbox.reset exactly once, as it ends (with a
\* result, a script error or a timeout) and not before, and the step that
\* ends it leaves the sandbox's trace empty.
C4_ResetOncePerRun ==
  /\ [](\A i \in Invocations : resetCalls[i] = IF Ended(i) THEN 1 ELSE 0)
  /\ [][\A i \in Invocations : (~Ended(i) /\ Ended(i)') => trace' = <<>>]_vars

\* One run has ended by timeout and another by a script error, each with its reset.
C4_Witness ==
  \E i, j \in Invocations :
    /\ pc[i] = "timedout" /\ resetCalls[i] = 1
    /\ pc[j] = "failed" /\ resetCalls[j] = 1
    /\ issued[j] > 0

\* The records of run i in a trace.
RecordsOf(i, tr) == SelectSeq(tr, LAMBDA r : r.run = i)

\* C5: when a script throws after j of its calls have completed, the caller
\* receives the error with its message instead of an output, and the j
\* records of the run are still there for the caller once the invocation
\* has thrown.
C5_FailedRunKeepsTrace ==
  [][\A i \in Invocations :
       (pc[i] = "racing" /\ sstate'[i] = "threw") =>
         /\ pc'[i] = "failed"
         /\ response'[i] = [kind |-> "error",
                            message |-> "Code execution failed: script error"]
         /\ Len(RecordsOf(i, trace')) = issued[i]]_vars

\* C15: an invocation that has ended has one outcome, a result when it
\* completed and an error when it failed or timed out; the outcome and what
\* the caller received never change afterwards, whatever the abandoned script
\* of a timed-out invocation does later; and no caller ever receives the
\* value such a script returns.
C15_OneTerminalOutcome ==
  /\ [](\A i \in Invocations :
         /\ pc[i] = "completed" <=> response[i].kind = "result"
         /\ pc[i] \in {"failed", "timedout"} <=> response[i].kind = "error"
         /\ response[i].kind = "result" => response[i].result # Str("late"))
  /\ [][\A i \in Invocations :
          Ended(i) => (pc'[i] = pc[i] /\ response'[i] = response[i])]_vars

\* The script of a timed-out invocation has returned "late" after the timeout
\* error was surfaced, and a later invocation has completed.
C15_Witness ==
  \E i, j \in Invocations :
    /\ pc[i] = "timedout" /\ sstate[i] = "returned"
    /\ script[i].ret = Str("late")
    /\ response[i] = TimeoutResponse
    /\ i < j /\ pc[j] = "completed"

\* The records of the calls that the script of invocation i made.
OwnRecords(i) ==
  [k \in 1..Len(script[i].calls) |->
     [toolName |-> script[i].calls[k],
      result |-> Capability(script[i].calls[k]).result]]

\* C16: whatever the interleaving of the invocations, the token savings in
\* the metadata of a completed run are the estimate of the records counted
\* in its toolCallCount, and these are the records of the calls of the run's
\* own script: no call and no reset of another run changes the estimate.
C16_EstimateFromOwnTrace ==
  \A i \in Invocations :
    pc[i] = "completed" =>
      LET md == response[i].metadata
      IN /\ md.totalTokensSaved
              = getComprehensiveTokenSavings(md.sandboxToolCalls).totalSaved
         /\ md.totalTokensSaved
              = getComprehensiveTokenSavings(OwnRecords(i)).totalSaved

\* C18: the budget of a run is the timeout the wrapper was built with: an
\* invocation whose script runs for less than that timeout never ends as a
\* timeout, and one whose script runs for longer always does.
C18_ConfiguredTimeoutIsBudget ==
  \A i \in Invocations :
    Ended(i) =>
      /\ script[i].dur < timeout => pc[i] # "timedout"
      /\ script[i].dur > timeout => pc[i] = "timedout"

\* A record has exactly one of result and error set.
ResultXorError(tc) == (tc.result # Undefined) # (tc.error # NoError)

\* C13: in a sequence of invocations made one after the other, a run whose
\* script issues k calls, none of which throws, and ends without throwing
\* hands its caller a trace of exactly k records, each with exactly one of
\* result and error set.
C13_OneRecordPerCall ==
  \A i \in Invocations :
    (pc[i] = "completed" /\ script[i].throwAt = -1 /\ Sequential(i)) =>
      LET tc == response[i].metadata.sandboxToolCalls
      IN /\ Len(tc) = Len(script[i].calls)
         /\ response[i].metadata.toolCallCount = Len(script[i].calls)
         /\ \A k \in 1..Len(tc) : ResultXorError(tc[k])

(***************************************************************************)
(* Properties of the derived output (specification SpecOutput).            *)
(***************************************************************************)
NoReturnValue(i) == script[i].ret \in {Undefined, Null}

\* The record of a trace whose call completed last.
LastCompleted(tr) == CHOOSE r \in {tr[k] : k \in 1..Len(tr)} :
                       \A k \in 1..Len(tr) : tr[k].end <= r.end

\* C6: a script that returns no value and whose run recorded exactly one
\* call has that call's result as its output, whatever the result is.
C6_SingleCallResult ==
  \A i \in Invocations :
    (pc[i] = "completed" /\ NoReturnValue(i)
       /\ response[i].metadata.toolCallCount = 1) =>
      response[i].result = response[i].metadata.sandboxToolCalls[1].result

\* C7: a script that returns no value and whose run recorded m > 1 calls has
\* as output a summary object whose results list has one entry per record
\* (name, success flag and result, in trace order) and whose lastResult is the
\* result of the call that completed last.
C7_SummaryOfCalls ==
  \A i \in Invocations :
    (pc[i] = "completed" /\ NoReturnValue(i)
       /\ response[i].metadata.toolCallCount > 1) =>
      LET out == response[i].result
          tc == response[i].metadata.sandboxToolCalls
      IN /\ out.t = "object"
         /\ out.keys = <<"message", "results", "lastResult">>
         /\ out.vals[2].t = "array"
         /\ Len(out.vals[2].items) = Len(tc)
         /\ \A k \in 1..Len(tc) :
              out.vals[2].items[k] =
                Obj(<<"tool", "success", "result">>,
                    <<Str(tc[k].toolName), Bool(tc[k].error = NoError), tc[k].result>>,
                    "none")
         /\ out.vals[3] = LastCompleted(tc).result

\* Two calls started together completed in the reverse of their issue order,
\* with different results, and the script returned nothing.
C7_Witness ==
  /\ pc[1] = "completed"
  /\ NoReturnValue(1)
  /\ script[1].par
  /\ response[1].metadata.toolCallCount = 2
  /\ response[1].metadata.sandboxToolCalls[1].idx = 2
  /\ response[1].metadata.sandboxToolCalls[2].idx = 1
  /\ response[1].metadata.sandboxToolCalls[1].result
       # response[1].metadata.sandboxToolCalls[2].result

\* C8: a script that returns a defined, non-null value that JSON represents
\* exactly gets that value as its result, whatever calls the run recorded.
C8_ReturnedValueIsResult ==
  \A i \in Invocations :
    (sstate[i] = "returned" /\ pc[i] # "timedout" /\ ~NoReturnValue(i)
       /\ RoundTrip(script[i].ret) = script[i].ret) =>
      /\ pc[i] = "completed"
      /\ response[i].result = script[i].ret

\* A script returned 0 after two recorded calls.
C8_Witness ==
  /\ pc[1] = "completed"
  /\ script[1].ret = Num("0")
  /\ response[1].result = Num("0")
  /\ response[1].metadata.toolCallCount = 2

\* C9: a script that returns within the budget always yields a result
\* object: no output value makes code_execution throw.
C9_OutputNeverFatal ==
  \A i \in Invocations :
    (sstate[i] = "returned" /\ pc[i] # "timedout") =>
      (pc[i] = "completed" /\ response[i].kind = "result")

\* C10: the result of every completed run is a value the JSON round trip
\* leaves unchanged, whether it is the returned value or comes from the trace.
C10_ResultIsJSON ==
  \A i \in Invocations :
    pc[i] = "completed" => RoundTrip(response[i].result) = response[i].result

\* C14: in the metadata of every completed run the total of the token
\* savings is the sum of the four components of the breakdown, and when the
\* run recorded no call the four components and the total are zero.
C14_TotalIsSumOfBreakdown ==
  \A i \in Invocations :
    pc[i] = "completed" =>
      LET md == response[i].metadata
          b == md.tokenSavingsBreakdown
      IN /\ md.totalTokensSaved = b.intermediateResults + b.roundTripContext
                                    + b.toolCallOverhead + b.llmDecisions
         /\ md.intermediateTokensSaved = b.intermediateResults
         /\ md.toolCallCount = 0 =>
              /\ b.intermediateResults = 0 /\ b.roundTripContext = 0
              /\ b.toolCallOverhead = 0 /\ b.llmDecisions = 0
              /\ md.totalTokensSaved = 0

\* A run with two recorded calls has completed with every component of the
\* breakdown positive.
C14_Witness ==
  /\ pc[1] = "completed"
  /\ response[1].metadata.toolCallCount = 2
  /\ response[1].metadata.tokenSavingsBreakdown.intermediateResults > 0
  /\ response[1].metadata.tokenSavingsBreakdown.roundTripContext > 0
  /\ response[1].metadata.tokenSavingsBreakdown.toolCallOverhead > 0
  /\ response[1].metadata.tokenSavingsBreakdown.llmDecisions > 0
  /\ response[1].metadata.totalTokensSaved
       > response[1].metadata.tokenSavingsBreakdown.intermediateResults

\* out is the summary object of the records tc: one results entry per
\* record (name, success flag, result) and the last record's result.
IsSummaryOf(out, tc) ==
  /\ out.t = "object"
  /\ out.keys = <<"message", "results", "lastResult">>
  /\ out.vals[2] = Arr(AllResults(tc))
  /\ out.vals[3] = IF tc = <<>> THEN Undefined ELSE LastCompleted(tc).result

\* C17 as stated: a script that returns no value and whose run recorded any
\* number of calls other than one, zero included, has the summary object of
\* its records as output.
C17_SummaryUnlessOneCall ==
  \A i \in Invocations :
    (pc[i] = "completed" /\ NoReturnValue(i)
       /\ response[i].metadata.toolCallCount # 1) =>
      IsSummaryOf(response[i].result, response[i].metadata.sandboxToolCalls)

\* C17 amended: a script that returns no value has the summary object of its
\* records as output when its run recorded more than one call, and the
\* object { message: 'Code executed but returned no result', success: true }
\* when it recorded none.
C17_SummaryOrNoResult ==
  \A i \in Invocations :
    (pc[i] = "completed" /\ NoReturnValue(i)) =>
      /\ response[i].metadata.toolCallCount > 1 =>
           IsSummaryOf(response[i].result, response[i].metadata.sandboxToolCalls)
      /\ response[i].metadata.toolCallCount = 0 =>
           response[i].result =
             Obj(<<"message", "success">>,
                 <<Str("Code executed but returned no result"), Bool(TRUE)>>, "none")

\* A script that made no call and returned null has completed.
C17_Witness ==
  /\ pc[1] = "completed"
  /\ script[1].ret = Null
  /\ script[1].calls = <<>>
  /\ response[1].metadata.toolCallCount = 0
  /\ response[1].result.keys = <<"message", "success">>

\* The set of the elements of a sequence.
Range(seq) == {seq[k] : k \in 1..Len(seq)}

\* C20: in the metadata of every completed run, toolCallCount is the number
\* of records of the trace (one per call of the script); the local and the
\* MCP count add up to it; sandboxToolCalls has one entry per record, in the
\* order the calls completed; toolsUsed lists each name of the trace once;
\* and toolsUsed is the union of localToolsUsed and mcpToolsUsed.
C20_MetadataCounts ==
  \A i \in Invocations :
    pc[i] = "completed" =>
      LET md == response[i].metadata
          tc == md.sandboxToolCalls
      IN /\ md.toolCallCount = Len(script[i].calls)
         /\ md.localToolCallCount + md.mcpToolCallCount = md.toolCallCount
         /\ Len(tc) = md.toolCallCount
         /\ {tc[k].idx : k \in 1..Len(tc)} = 1..Len(script[i].calls)
         /\ \A k \in 1..Len(tc) : tc[k].toolName = script[i].calls[tc[k].idx]
         /\ \A k, l \in 1..Len(tc) : k < l => tc[k].end < tc[l].end
         /\ Range(md.toolsUsed) = Range(script[i].calls)
         /\ Len(md.toolsUsed) = Cardinality(Range(script[i].calls))
         /\ Range(md.toolsUsed) = Range(md.localToolsUsed) \cup Range(md.mcpToolsUsed)
         /\ Len(md.toolsUsed) = Len(md.localToolsUsed) + Len(md.mcpToolsUsed)

\* A run has completed with one local and one MCP call in its trace, the
\* calls having completed in the reverse of their issue order.
C20_Witness ==
  /\ pc[1] = "completed"
  /\ response[1].metadata.localToolCallCount = 1
  /\ response[1].metadata.mcpToolCallCount = 1
  /\ Len(response[1].metadata.toolsUsed) = 2
  /\ response[1].metadata.sandboxToolCalls[1].idx = 2

(***************************************************************************)
(* Properties of the chat route (specification SpecRoute).                 *)
(***************************************************************************)
\* C11: a request with a usable model whose MCP manager (its own, or the
\* global one it set out to initialize) failed to initialize is answered
\* with the stream and not with an error; its wrapper registers every tool
\* of the local set and no bridged tool, and a script it runs can call each
\* local tool.
C11_InitFailureKeepsLocalTools ==
  \A r \in Requests :
    (request[r].initFailed /\ request[r].body.modelConfig = "ok") =>
      /\ request[r].pc \in {"streaming", "closed", "errored"}
      /\ request[r].status = 200
      /\ request[r].wrapper.toolRegistry = {d.name : d \in tools}
      /\ request[r].wrapper.mcpToolNames = {}
      /\ request[r].enhancedTools = {d.name : d \in tools} \cup {"code_execution"}
      /\ (exec[r].state = "running" /\ sandboxes[SandboxOf(r)] = <<>>) =>
           \A d \in tools : ENABLED SandboxCall(r, d.name)

\* One request's own manager and another's global manager failed to
\* initialize, and the first ran a script that called a local tool.
C11_Witness ==
  \E r1, r2 \in Requests :
    /\ request[r1].initFailed /\ request[r1].body.mcpServers = "servers"
    /\ request[r2].initFailed /\ request[r2].body.mcpServers = "missing"
    /\ mcpManager = 0
    /\ request[r1].pc = "closed"
    /\ Len(request[r1].payload.codeExecutions) = 1
    /\ request[r1].payload.codeExecutions[1].metadata.toolCallCount = 1
    /\ ~request[r1].payload.codeExecutions[1].metadata.sandboxToolCalls[1].isMCP

\* The records of a list of code executions, and who issued them.
RecordsIssuedBy(codeExecutions, r) ==
  \A k \in 1..Len(codeExecutions) :
    \A j \in 1..Len(codeExecutions[k].metadata.sandboxToolCalls) :
      codeExecutions[k].metadata.sandboxToolCalls[j].req = r

\* C12: whatever the interleaving of the requests, the trace of a request's
\* sandbox, its toolCalls and codeExecutions lists and its final metadata
\* payload hold only tool calls and trace records that the request itself
\* produced.
C12_RequestsIsolated ==
  \A r \in Requests :
    /\ \A k \in 1..Len(sandboxes[r]) : sandboxes[r][k].req = r
    /\ \A k \in 1..Len(request[r].toolCalls) : request[r].toolCalls[k].req = r
    /\ RecordsIssuedBy(request[r].codeExecutions, r)
    /\ request[r].pc = "closed" =>
         /\ \A k \in 1..Len(request[r].payload.toolCalls) :
              request[r].payload.toolCalls[k].req = r
         /\ RecordsIssuedBy(request[r].payload.codeExecutions, r)

\* The scripts of two requests are running at once and each has a completed
\* call in its trace.
C12_Witness ==
  \E r1, r2 \in Requests :
    /\ r1 # r2
    /\ exec[r1].state = "running" /\ Len(sandboxes[SandboxOf(r1)]) = 1
    /\ exec[r2].state = "running" /\ Len(sandboxes[SandboxOf(r2)]) = 1

\* C19: a wrapper built by withProgrammaticCalling with no timeout argument,
\* as POST builds it, has given its sandbox a timeout of 30000 ms, the
\* default of the ProgrammaticToolCaller constructor.
C19_DefaultTimeoutIs30000 ==
  \A r \in Requests :
    request[r].status = 200 =>
      /\ request[r].wrapper.timeout = 30000
      /\ request[r].wrapper.timeout
           = ProgrammaticToolCaller(request[r].allTools, Absent).timeout

(***************************************************************************)
(* Properties of the registry (specification SpecRegistry).                *)
(***************************************************************************)
\* The names of RegistryNames that start with 'mcp_'.
MCPPrefixed == {"mcp_x", "mcp_"}

\* The list has no name twice.
NoDuplicates(names) == \A k, l \in 1..Len(names) : names[k] = names[l] => k = l

\* C21: for every tool set, a tool is in the local registry exactly when it
\* has an execute function and its name does not start with 'mcp_'; no name
\* starting with 'mcp_' is in localToolNames; and the list getAllToolNames
\* returns has every local and every MCP name once, the two being disjoint.
C21_LocalAndBridgedDisjoint ==
  /\ \A d \in caller.tools :
       d.name \in caller.toolRegistry <=> (d.execute /\ d.name \notin MCPPrefixed)
  /\ caller.toolRegistry \subseteq {d.name : d \in caller.tools}
  /\ caller.localToolNames = caller.toolRegistry
  /\ caller.localToolNames \cap MCPPrefixed = {}
  /\ caller.localToolNames \cap caller.mcpToolNames = {}
  /\ returned.op = "getAllToolNames" =>
       /\ NoDuplicates(returned.value)
       /\ Range(returned.value) = caller.localToolNames \cup caller.mcpToolNames
  /\ returned.op = "execute" =>
       (returned.value.isMCP <=> returned.value.toolName \in MCPPrefixed)

\* getAllToolNames has listed local and MCP names of a tool set that holds
\* an 'mcp_' tool with an execute function and a local tool without one.
C21_Witness ==
  /\ returned.op = "getAllToolNames"
  /\ ToolDef("mcp_x", TRUE) \in caller.tools
  /\ ToolDef("mcp", TRUE) \in caller.tools
  /\ ToolDef("get", FALSE) \in caller.tools
  /\ ToolDef("double", TRUE) \in caller.tools
  /\ Len(returned.value) = 3

\* C22: no operation of a ProgrammaticToolCaller changes its toolRegistry,
\* its localToolNames, its mcpToolNames or its tools object.
C22_RegistryReadOnly ==
  [][/\ caller'.toolRegistry = caller.toolRegistry
     /\ caller'.localToolNames = caller.localToolNames
     /\ caller'.mcpToolNames = caller.mcpToolNames
     /\ caller'.tools = caller.tools]_vars

\* createEnhancedToolSet has returned a set with code_execution for a
\* wrapper whose own tools have no code_execution.
C22_Witness ==
  /\ returned.op = "createEnhancedToolSet"
  /\ "code_execution" \in returned.value
  /\ caller.tools # {}
  /\ "code_execution" \notin {d.name : d \in caller.tools}

(***************************************************************************)
(* Properties of the response stream (specification SpecStream).           *)
(***************************************************************************)
MetadataItems(sent) == SelectSeq(sent, LAMBDA item : item.kind = "metadata")

ToolItems(sent) == SelectSeq(sent, LAMBDA item : item.kind = "tool")

\* C25: a stream that is closed carries exactly one metadata event, as its
\* last item, and the tokens-saved counter was read once for it; a stream
\* that is still open or is errored carries none; the step that enqueues
\* the metadata event closes the stream, every step that ends the stream
\* otherwise errors it, and nothing is enqueued afterwards.
C25_MetadataOnceAtEnd ==
  /\ [](\A r \in Requests :
         LET q == request[r]
         IN /\ \A k \in 1..Len(q.sent) :
                 q.sent[k].kind = "metadata" => k = Len(q.sent)
            /\ q.pc = "closed" =>
                 /\ Len(MetadataItems(q.sent)) = 1
                 /\ q.sent[Len(q.sent)] = [kind |-> "metadata", data |-> q.payload]
                 /\ q.tokensSavedReads = 1
            /\ q.pc # "closed" =>
                 /\ MetadataItems(q.sent) = <<>>
                 /\ q.tokensSavedReads = 0)
  /\ [][\A r \in Requests :
          /\ request[r].pc = "streaming" =>
                request'[r].pc \in {"streaming", "closed", "errored"}
          /\ request[r].pc \in {"closed", "errored"} =>
                /\ request'[r].pc = request[r].pc
                /\ request'[r].sent = request[r].sent]_vars

\* A stream with two tool call events, two text chunks and the metadata
\* event last has been closed.
C25_Witness ==
  /\ request[1].pc = "closed"
  /\ Len(TextItems(request[1].sent)) = 2
  /\ Len(ToolItems(request[1].sent)) = 2
  /\ request[1].sent[Len(request[1].sent)].kind = "metadata"
  /\ request[1].tokensSavedReads = 1

\* The '__TOOL_CALL__' items that a list of observed tool calls gives rise to.
EventsOf(toolCalls) ==
  [k \in 1..Len(toolCalls) |->
     [kind |-> "tool", id |-> toolCalls[k].id, toolName |-> toolCalls[k].toolName]]

\* C26: at every moment the tool call events enqueued on the stream,
\* followed by the events still queued, are the events of the tool calls
\* observed in onStepFinish, each once and in the order observed; when the
\* stream is closed none is left queued, all precede the metadata event and
\* their number is the toolCallCount of the metadata; and no event is
\* enqueued once the stream is closed or errored.
C26_EachToolCallEventOnce ==
  /\ [](\A r \in Requests :
         LET q == request[r]
         IN /\ ToolItems(q.sent) \o ToolCallItems(q.toolCallEvents)
                 = EventsOf(q.toolCalls)
            /\ q.pc = "closed" =>
                 /\ q.toolCallEvents = <<>>
                 /\ Len(ToolItems(q.sent)) = q.payload.toolCallCount
                 /\ ToolItems(SubSeq(q.sent, 1, Len(q.sent) - 1)) = EventsOf(q.toolCalls))
  /\ [][\A r \in Requests :
          request[r].pc \in {"closed", "errored"} =>
            ToolItems(request'[r].sent) = ToolItems(request[r].sent)]_vars

\* A closed stream on which one tool call event went out before the first
\* text chunk and the other after it.
C26_Witness ==
  /\ request[1].pc = "closed"
  /\ Len(request[1].sent) = 4
  /\ request[1].sent[1].kind = "tool"
  /\ request[1].sent[2].kind = "text"
  /\ request[1].sent[3].kind = "tool"
  /\ request[1].sent[4].kind = "metadata"
  /\ request[1].payload.toolCallCount = 2

\* The steps of code_execution calls that produced a result.
CodeExecutionCalls(steps) ==
  SelectSeq(steps, LAMBDA st : st.toolName = "code_execution" /\ st.hasResult)

\* C27: in the final metadata payload, codeExecutions has one entry per
\* code_execution call that produced a result, and entry i holds the code,
\* the result and the metadata that call i returned, also when two calls
\* have the same code text.
C27_EntryHoldsOwnMetadata ==
  \A r \in Requests :
    request[r].pc = "closed" =>
      LET calls == CodeExecutionCalls(request[r].steps)
          ces == request[r].payload.codeExecutions
      IN /\ Len(ces) = Len(calls)
         /\ \A i \in 1..Len(ces) :
              /\ ces[i].code = calls[i].code
              /\ ces[i].metadata = calls[i].output.metadata
              /\ ces[i].result = calls[i].output.result

(***************************************************************************)
(* Properties of the global MCP manager (specification SpecManager).       *)
(***************************************************************************)
\* The number of initialize() calls made on the global managers of a list.
RECURSIVE GlobalInitializeCalls(_)
GlobalInitializeCalls(ms) ==
  IF ms = <<>> THEN 0
  ELSE (IF ms[Len(ms)].global THEN ms[Len(ms)].initCalls ELSE 0)
         + GlobalInitializeCalls(SubSeq(ms, 1, Len(ms) - 1))

\* C23: whatever the requests without mcpServers do, and whether or not an
\* initialization fails, initialize() is invoked at most once on a global
\* MCP manager during the life of the process.
C23_GlobalInitializedOnce == GlobalInitializeCalls(managers) <= 1

\* C24: a manager that getMCPManager has returned to a request has
\* completed its initialize() successfully: it is neither still
\* initializing nor failed.
C24_ReturnedManagerIsReady ==
  \A r \in Requests :
    request[r].globalMCPManager # 0 =>
      managers[request[r].globalMCPManager].init = "ready"

(***************************************************************************)
(* Properties of POST's answers (specification SpecRoute).                 *)
(***************************************************************************)
\* The body was parsed and one of the checks of POST fails on its fields.
FailsChecks(b) ==
  /\ b.json = "ok"
  /\ b.messages # "array" \/ b.modelConfig \in {"missing", "noProvider", "noModel"}

\* C28: a request whose body has no messages array, or whose modelConfig
\* lacks provider or model, is answered with status 400 in the step that
\* reads the body, with no MCP manager created or initialized, no tool
\* wrapped and no model call made; a request stopped by an exception before
\* the stream is returned (a body that does not parse or is null, a model
\* that getModel rejects) is answered with status 500 and a JSON body that
\* carries the message; every other request is answered with the stream.
C28_BadRequestBeforeWork ==
  /\ [](\A r \in Requests :
         LET q == request[r]
         IN /\ (q.pc # "idle" /\ FailsChecks(q.body)) =>
                 /\ q.pc = "done" /\ q.status = 400
                 /\ q.payload.type = "text"
                 /\ q.manager = 0 /\ q.wrapper = NoWrapper /\ q.enhancedTools = {}
                 /\ q.steps = <<>> /\ q.sent = <<>> /\ ~q.toolCallInterval
            /\ (q.pc # "idle" /\ q.body.json # "ok") =>
                 /\ q.pc = "done" /\ q.status = 500
                 /\ q.payload.type = "json" /\ q.payload.error # ""
                 /\ q.manager = 0 /\ q.wrapper = NoWrapper
            /\ (q.pc \notin {"idle", "tempInit", "globalInit"} /\ q.body.json = "ok"
                  /\ ~FailsChecks(q.body)) =>
                 IF q.body.modelConfig = "unsupported"
                 THEN /\ q.pc = "done" /\ q.status = 500
                      /\ q.payload = [type |-> "json", error |-> "Unsupported provider"]
                      /\ q.steps = <<>> /\ q.sent = <<>>
                 ELSE q.status = 200 /\ q.pc \in {"streaming", "closed", "errored"})
  /\ [][\A r \in Requests :
          (request[r].pc = "idle" /\ request'[r].status = 400) =>
            /\ managers' = managers
            /\ mcpManager' = mcpManager]_vars

\* One request was answered 400 for a messages field that is not an array,
\* and another 500 because getModel rejected its model after its own MCP
\* manager had been initialized and its tools wrapped.
C28_Witness ==
  \E r1, r2 \in Requests :
    /\ request[r1].status = 400 /\ request[r1].body.json = "ok"
    /\ request[r1].body.messages = "string"
    /\ request[r1].body.mcpServers = "servers"
    /\ request[r2].status = 500 /\ request[r2].body.json = "ok"
    /\ request[r2].body.modelConfig = "unsupported"
    /\ request[r2].manager # 0 /\ request[r2].wrapper # NoWrapper

(***************************************************************************)
(* Properties of the chat client (specification SpecClient).               *)
(***************************************************************************)
\* The requests in flight: started, not aborted and not yet ended.
InFlight == {i \in Unfinished : ~fetches[i].aborted}

RECURSIVE TextOf(_)
TextOf(sent) ==
  IF sent = <<>> THEN ""
  ELSE (IF Head(sent).kind = "text" THEN Head(sent).text ELSE "") \o TextOf(Tail(sent))

\* C30: however the stream was cut into chunks, when the read loop has
\* ended every tool call event of the stream is one pending tool call, in
\* order, the metadata event was parsed and applied, and the content of
\* the assistant message is the concatenation of the text chunks.
C30_ParserIgnoresChunkBoundaries ==
  parsed.state = "done" =>
    /\ parsed.streamingToolCalls
         = [k \in 1..Len(ToolCallsOf(parsed.served)) |->
              [id |-> ToolCallsOf(parsed.served)[k].id,
               toolName |-> ToolCallsOf(parsed.served)[k].toolName]]
    /\ parsed.metrics = <<parsed.served[Len(parsed.served)].data>>
    /\ parsed.assistantContent = TextOf(parsed.served)

====
